---- MODULE Spec2Model ----
(***************************************************************************)
(* Model of the CrediFlow store (MockDbService) and of the customer        *)
(* statement computed by the ledger screen.                                *)
(*                                                                         *)
(* Two variants of the store exist in the repository:                      *)
(*   - src/services/mockDb.ts : synchronous handlers, localStorage plus a  *)
(*     fire-and-forget key/value push to the cloud;                        *)
(*   - src/unnamed/part_001   : async handlers that await one SQL write    *)
(*     per mutated row.                                                    *)
(* The synchronous handlers are the actions of Spec and SpecInv; the async *)
(* handlers are cut at their awaits and are the actions of SpecAsync.      *)
(***************************************************************************)
EXTENDS Integers, Sequences, FiniteSets, TLC

VARIABLES
    products,      \* this.products      : Seq of Product
    customers,     \* this.customers     : Seq of Customer
    transactions,  \* this.transactions  : Seq of Transaction (newest first)
    payments,      \* this.payments      : Seq of PaymentRecord
    expenses,      \* this.expenses      : Seq of ExpenseRecord
    activities,    \* this.activities    : Seq of ActivityLog (newest first)
    dbInitialized, \* this.dbInitialized (mockDb.ts) / sql client present (part_001)
    localStorage,  \* the browser's localStorage, one entry per KEYS value
    now,           \* Date.now(), in abstract milliseconds
    rnd,           \* number of Math.random() draws made so far
    ops,           \* number of handler calls made so far
    last,          \* the last handler call: its name, arguments and outcome
    writtenOff,    \* history: per customer id, debt discarded by the zero floor
    calls,         \* part_001: the calls of async handlers, each with the await it is at
    remote,        \* part_001: the tables of the SQL store
    inflight,      \* part_001: INSERTs of log() on their way, which no caller awaits
    view,          \* the ledger screen: what loadCustomerData has set last
    startup        \* App.tsx, part_001: the start of the application and of init()

storeVars == <<products, customers, transactions, payments, expenses, activities>>

asyncVars == <<calls, remote, inflight>>

----------------------------------------------------------------------------
(* Bounds of the model *)

MaxOps ==
    3

MaxCustomers ==
    4

----------------------------------------------------------------------------
(* Initial data: src/services/mockDb.ts:12-53 *)

INITIAL_SHOPS ==
    << [id |-> "shop1", name |-> "Osaka - Kattankudy"],
       [id |-> "shop2", name |-> "Shop 2: City Retail"],
       [id |-> "shop3", name |-> "Shop 3: Outlet Store"],
       [id |-> "shop4", name |-> "Shop 4: Warehouse B"] >>

INITIAL_PRODUCTS ==
    << [id |-> "1", shopId |-> "shop1", name |-> "Premium Cotton Shirt",
        category |-> "Clothing", price |-> 1200, wholesalePrice |-> 800, stock |-> 150],
       [id |-> "2", shopId |-> "shop1", name |-> "Denim Jeans - Bulk",
        category |-> "Clothing", price |-> 1800, wholesalePrice |-> 1200, stock |-> 80],
       [id |-> "3", shopId |-> "shop2", name |-> "Leather Belt",
        category |-> "Accessories", price |-> 500, wholesalePrice |-> 300, stock |-> 20],
       [id |-> "4", shopId |-> "shop2", name |-> "Running Shoes",
        category |-> "Footwear", price |-> 3500, wholesalePrice |-> 2500, stock |-> 40],
       [id |-> "5", shopId |-> "shop3", name |-> "Silk Scarf",
        category |-> "Accessories", price |-> 900, wholesalePrice |-> 600, stock |-> 100] >>

INITIAL_CUSTOMERS ==
    << [id |-> "c1", name |-> "Retail Walk-in", type |-> "RETAIL", totalDebt |-> 0],
       [id |-> "c2", name |-> "Rahul Kumar", type |-> "WHOLESALE", totalDebt |-> 15000],
       [id |-> "c3", name |-> "Sarah Jenkins", type |-> "WHOLESALE", totalDebt |-> 5000] >>

INITIAL_TRANSACTIONS ==
    << >>

\* constructor: defaultActivity (mockDb.ts:84-91), dated at construction time
defaultActivity ==
    << [id |-> "log1", shopId |-> "shop1", customerId |-> "undefined",
        date |-> 0, action |-> "SYSTEM_START"] >>

\* KEYS (mockDb.ts:56-64); "absent" is a key localStorage does not hold
KEYS ==
    {"shops", "products", "customers", "transactions", "payments",
     "expenses", "activities"}

----------------------------------------------------------------------------
(* Helpers *)

\* the index of the first element with that id, 1-based; 0 stands for -1
findIndexById(seq, id) ==
    IF \E i \in 1..Len(seq) : seq[i].id = id
    THEN CHOOSE i \in 1..Len(seq) :
            seq[i].id = id /\ \A j \in 1..(i - 1) : seq[j].id # id
    ELSE 0

\* sum of a sequence of numbers
RECURSIVE SumSeq(_)
SumSeq(seq) ==
    IF seq = << >> THEN 0 ELSE Head(seq) + SumSeq(Tail(seq))

\* save (mockDb.ts:171-180): localStorage.setItem(key, JSON.stringify(data));
\* pushToCloud returns at once while dbInitialized is false (mockDb.ts:116)
save(ls, key, data) ==
    [ls EXCEPT ![key] = data]

\* pushToCloud (mockDb.ts:115-126) as save calls it for each key it has just
\* written to ls: once the database is connected, an upsert of the key with
\* the saved data is sent and nobody waits for it
pushToCloud(flight, keys, ls) ==
    IF dbInitialized
    THEN flight \cup {[kind |-> "upsert", id |-> k, value |-> ls[k]] : k \in keys}
    ELSE flight

\* log (mockDb.ts:232-245): the new entry is put in front of the log;
\* r is the Math.random() draw that ends its id
log(acts, action, shopId, customerId, r) ==
    << [id |-> "log-" \o ToString(now) \o "-" \o ToString(r),
        shopId |-> shopId, customerId |-> customerId,
        date |-> now, action |-> action] >> \o acts

\* history: debt discarded by the zero floor so far for customer id c
WrittenOff(c) ==
    IF c \in DOMAIN writtenOff THEN writtenOff[c] ELSE 0

AddWrittenOff(c, amount) ==
    [x \in DOMAIN writtenOff \cup {c} |->
        IF x = c THEN WrittenOff(c) + amount ELSE writtenOff[x]]

----------------------------------------------------------------------------
(* Initial state: constructor (mockDb.ts:76-96) with an empty localStorage *)

\* the statement state of the ledger screen before any customer is loaded
\* (CustomerLedger.tsx:34-39)
emptyView ==
    [statementData |-> << >>, shopBalances |-> << >>, totalBilled |-> 0,
     totalPaid |-> 0, customerActivities |-> << >>]

\* the application once the start is over: init() has ended and the screens
\* are shown (App.tsx:17-33, part_001:125-258)
started ==
    [init |-> "resolved", timer |-> "fired", isInitialized |-> TRUE, isDbReady |-> TRUE]

Init ==
    /\ products = INITIAL_PRODUCTS
    /\ customers = INITIAL_CUSTOMERS
    /\ transactions = INITIAL_TRANSACTIONS
    /\ payments = << >>
    /\ expenses = << >>
    /\ activities = defaultActivity
    /\ dbInitialized = FALSE
    /\ localStorage = [k \in KEYS |-> "absent"]
    /\ now = 0
    /\ rnd = 0
    /\ ops = 0
    /\ last = [op |-> "constructor", result |-> "ok", args |-> << >>]
    /\ writtenOff = [c \in {} |-> 0]
    /\ calls = << >>
    /\ remote = [products |-> << >>, customers |-> << >>, rows |-> {}]
    /\ inflight = {}
    /\ view = emptyView
    /\ startup = started

----------------------------------------------------------------------------
(* The clock: every handler is started from the screen by a click, so a call
   falls at least one millisecond after the call before it *)

clockAfterCall ==
    now + 1

----------------------------------------------------------------------------
(* Ledger handlers of the synchronous store *)

\* recordPayment, the debt it leaves (mockDb.ts:354-355)
\* a payment that is subtracted without the floor
debtAfterPayment_noFloor(totalDebt, amount) ==
    totalDebt - amount

debtAfterPayment(totalDebt, amount) ==
    IF totalDebt - amount < 0 THEN 0 ELSE totalDebt - amount

\* shopId || 'unknown' (mockDb.ts:360, 380)
shopOrUnknown(shopId) ==
    IF shopId = "undefined" THEN "unknown" ELSE shopId

\* recordPayment (mockDb.ts:351-370)
recordPayment(customerId, amount, shopId) ==
    LET custIndex == findIndexById(customers, customerId) IN
    /\ ops < MaxOps
    /\ ops' = ops + 1
    /\ IF custIndex > 0
       THEN LET cust     == customers[custIndex]
                newDebt  == debtAfterPayment(cust.totalDebt, amount)
                payment  == [id |-> "r" \o ToString(rnd),
                             shopId |-> shopOrUnknown(shopId),
                             customerId |-> customerId,
                             amount |-> amount, date |-> now]
            IN /\ customers' = [customers EXCEPT ![custIndex].totalDebt = newDebt]
               /\ payments' = Append(payments, payment)
               /\ activities' = log(activities, "PAYMENT", shopId, customerId, rnd + 1)
               /\ localStorage' = save(save(save(localStorage,
                                    "customers", customers'), "payments", payments'),
                                    "activities", activities')
               /\ inflight' = pushToCloud(inflight,
                                    {"customers", "payments", "activities"}, localStorage')
               /\ rnd' = rnd + 2
               /\ writtenOff' = AddWrittenOff(customerId,
                                    IF amount > cust.totalDebt
                                    THEN amount - cust.totalDebt ELSE 0)
               /\ last' = [op |-> "recordPayment", result |-> "ok",
                           args |-> <<customerId, amount, shopId>>]
       ELSE /\ UNCHANGED <<customers, payments, activities, localStorage, rnd, writtenOff,
                           inflight>>
            /\ last' = [op |-> "recordPayment", result |-> "noop",
                        args |-> <<customerId, amount, shopId>>]
    /\ now' = clockAfterCall
    /\ UNCHANGED <<products, transactions, expenses, dbInitialized, startup, view, calls, remote>>

\* recordExpense (mockDb.ts:372-391)
recordExpense(customerId, amount, date, shopId) ==
    LET custIndex == findIndexById(customers, customerId) IN
    /\ ops < MaxOps
    /\ ops' = ops + 1
    /\ IF custIndex > 0
       THEN LET cust    == customers[custIndex]
                expense == [id |-> "exp-" \o ToString(now),
                            shopId |-> shopOrUnknown(shopId),
                            customerId |-> customerId,
                            amount |-> amount, date |-> date]
            IN /\ customers' = [customers EXCEPT
                                    ![custIndex].totalDebt = cust.totalDebt + amount]
               /\ expenses' = Append(expenses, expense)
               /\ activities' = log(activities, "EXPENSE", shopId, customerId, rnd)
               /\ localStorage' = save(save(save(localStorage,
                                    "customers", customers'), "expenses", expenses'),
                                    "activities", activities')
               /\ inflight' = pushToCloud(inflight,
                                    {"customers", "expenses", "activities"}, localStorage')
               /\ rnd' = rnd + 1
               /\ last' = [op |-> "recordExpense", result |-> "ok",
                           args |-> <<customerId, amount, date, shopId>>]
       ELSE /\ UNCHANGED <<customers, expenses, activities, localStorage, rnd, inflight>>
            /\ last' = [op |-> "recordExpense", result |-> "noop",
                        args |-> <<customerId, amount, date, shopId>>]
    /\ now' = clockAfterCall
    /\ UNCHANGED <<products, transactions, payments, dbInitialized, startup, view, calls, remote,
                   writtenOff>>

\* createTransaction, the stock update loop (mockDb.ts:331-336): an item whose
\* product id matches no product is skipped; the lookup ignores the shop
RECURSIVE updateStock(_, _)
updateStock(prods, items) ==
    IF items = << >> THEN prods
    ELSE LET item      == Head(items)
             prodIndex == findIndexById(prods, item.productId)
         IN updateStock(
                IF prodIndex > 0
                THEN [prods EXCEPT ![prodIndex].stock = @ - item.quantity]
                ELSE prods,
                Tail(items))

\* a debt update that drops the test balance > 0
debtAfterSale_unguarded(totalDebt, balance) ==
    totalDebt + balance

\* a debt update that tests the balance for not being zero
debtAfterSale_nonZero(totalDebt, balance) ==
    IF balance # 0 THEN totalDebt + balance ELSE totalDebt

\* createTransaction, the debt update (mockDb.ts:340-346)
debtAfterSale(totalDebt, balance) ==
    IF balance > 0 THEN totalDebt + balance ELSE totalDebt

\* createTransaction (mockDb.ts:326-349)
createTransaction(transaction) ==
    LET custIndex == findIndexById(customers, transaction.customerId)
        debtSaved == transaction.balance > 0 /\ custIndex > 0
    IN
    /\ ops < MaxOps
    /\ ops' = ops + 1
    /\ transactions' = <<transaction>> \o transactions
    /\ products' = updateStock(products, transaction.items)
    /\ customers' = IF custIndex > 0
                    THEN [customers EXCEPT ![custIndex].totalDebt =
                            debtAfterSale(@, transaction.balance)]
                    ELSE customers
    /\ activities' = log(activities, "SALE", transaction.shopId,
                         transaction.customerId, rnd)
    /\ localStorage' =
          LET ls1 == save(save(localStorage, "transactions", transactions'),
                          "products", products')
              ls2 == IF debtSaved THEN save(ls1, "customers", customers') ELSE ls1
          IN save(ls2, "activities", activities')
    /\ inflight' = pushToCloud(inflight,
                        {"transactions", "products", "activities"}
                            \cup (IF debtSaved THEN {"customers"} ELSE {}),
                        localStorage')
    /\ rnd' = rnd + 1
    /\ last' = [op |-> "createTransaction", result |-> "ok", args |-> <<transaction>>]
    /\ now' = clockAfterCall
    /\ UNCHANGED <<payments, expenses, dbInitialized, startup, view, calls, remote, writtenOff>>

\* POS calculateTotal (POS.tsx:45-50)
RECURSIVE calculateTotal(_, _)
calculateTotal(cart, isWholesale) ==
    IF cart = << >> THEN 0
    ELSE LET item  == Head(cart)
             price == IF isWholesale THEN item.product.wholesalePrice
                      ELSE item.product.price
         IN price * item.quantity + calculateTotal(Tail(cart), isWholesale)

\* sale status (POS.tsx:76)
\* a derivation that takes a sale paid to the cent for a partial one
saleStatus_strict(balance, paid) ==
    IF balance < 0 THEN "PAID" ELSE IF paid = 0 THEN "UNPAID" ELSE "PARTIAL"

saleStatus(balance, paid) ==
    IF balance <= 0 THEN "PAID" ELSE IF paid = 0 THEN "UNPAID" ELSE "PARTIAL"

\* POS handleCheckout (POS.tsx:54-77): the transaction handed to the store;
\* paidAmount is the input field: << >> when left empty (paid in full),
\* <<n>> when the number n was typed
handleCheckout(shopId, selectedCustomer, cart, paidAmount) ==
    LET custIndex  == findIndexById(customers, selectedCustomer)
        isWholesale == custIndex > 0 /\ customers[custIndex].type = "WHOLESALE"
        total      == calculateTotal(cart, isWholesale)
        paid       == IF paidAmount = << >> THEN total ELSE paidAmount[1]
        balance    == total - paid
    IN [id |-> "TRX-" \o ToString(now),
        shopId |-> shopId,
        customerId |-> selectedCustomer,
        date |-> now,
        items |-> [i \in 1..Len(cart) |->
                     [productId |-> cart[i].product.id,
                      quantity |-> cart[i].quantity]],
        totalAmount |-> total,
        paidAmount |-> paid,
        balance |-> balance,
        status |-> saleStatus(balance, paid)]

\* addCustomer (mockDb.ts:308-312) with the customer built by
\* handleAddCustomerSubmit (CustomerLedger.tsx:194-204)
addCustomer ==
    LET customer == [id |-> "CUST-" \o ToString(now), name |-> "New Customer",
                     type |-> "WHOLESALE", totalDebt |-> 0]
    IN
    /\ ops < MaxOps
    /\ Len(customers) < MaxCustomers
    /\ ops' = ops + 1
    /\ customers' = Append(customers, customer)
    /\ activities' = log(activities, "ADD_CUSTOMER", "undefined", customer.id, rnd)
    /\ localStorage' = save(save(localStorage, "customers", customers'),
                            "activities", activities')
    /\ inflight' = pushToCloud(inflight, {"customers", "activities"}, localStorage')
    /\ rnd' = rnd + 1
    /\ last' = [op |-> "addCustomer", result |-> "ok", args |-> <<customer.id>>]
    /\ now' = clockAfterCall
    /\ UNCHANGED <<products, transactions, payments, expenses, dbInitialized, startup, view, calls,
                   remote, writtenOff>>

----------------------------------------------------------------------------
(* The customer statement: loadCustomerData (CustomerLedger.tsx:93-183) *)

getTransactionsByCustomer(customerId) ==
    SelectSeq(transactions, LAMBDA t : t.customerId = customerId)

getPaymentsByCustomer(customerId) ==
    SelectSeq(payments, LAMBDA p : p.customerId = customerId)

getExpensesByCustomer(customerId) ==
    SelectSeq(expenses, LAMBDA e : e.customerId = customerId)

\* the ledger screen lists the wholesale customers (CustomerLedger.tsx:81)
customerList ==
    SelectSeq(customers, LAMBDA c : c.type = "WHOLESALE")

\* a merge that bills a sale for its unpaid balance instead of its total
statementItems_unpaidOnly(custId) ==
    LET ts == getTransactionsByCustomer(custId)
        ps == getPaymentsByCustomer(custId)
        es == getExpensesByCustomer(custId)
    IN [i \in 1..Len(ts) |->
          [id |-> ts[i].id, date |-> ts[i].date, type |-> "SALE",
           amount |-> ts[i].balance, balanceChange |-> ts[i].balance,
           shopId |-> ts[i].shopId, runningBalance |-> 0]]
       \o
       [i \in 1..Len(ps) |->
          [id |-> ps[i].id, date |-> ps[i].date, type |-> "PAYMENT",
           amount |-> ps[i].amount, balanceChange |-> 0 - ps[i].amount,
           shopId |-> ps[i].shopId, runningBalance |-> 0]]
       \o
       [i \in 1..Len(es) |->
          [id |-> es[i].id, date |-> es[i].date, type |-> "EXPENSE",
           amount |-> es[i].amount, balanceChange |-> es[i].amount,
           shopId |-> es[i].shopId, runningBalance |-> 0]]

\* Merge Statement Items (CustomerLedger.tsx:128-162)
statementItems(custId) ==
    LET ts == getTransactionsByCustomer(custId)
        ps == getPaymentsByCustomer(custId)
        es == getExpensesByCustomer(custId)
    IN [i \in 1..Len(ts) |->
          [id |-> ts[i].id, date |-> ts[i].date, type |-> "SALE",
           amount |-> ts[i].totalAmount, balanceChange |-> ts[i].balance,
           shopId |-> ts[i].shopId, runningBalance |-> 0]]
       \o
       [i \in 1..Len(ps) |->
          [id |-> ps[i].id, date |-> ps[i].date, type |-> "PAYMENT",
           amount |-> ps[i].amount, balanceChange |-> 0 - ps[i].amount,
           shopId |-> ps[i].shopId, runningBalance |-> 0]]
       \o
       [i \in 1..Len(es) |->
          [id |-> es[i].id, date |-> es[i].date, type |-> "EXPENSE",
           amount |-> es[i].amount, balanceChange |-> es[i].amount,
           shopId |-> es[i].shopId, runningBalance |-> 0]]

\* the date of an expense whose date field was emptied (CustomerLedger.tsx:771):
\* '' is no date, the dates that are one are 0 or later
NoDate ==
    0 - 1

\* the comparator of the sort (CustomerLedger.tsx:165): new Date('').getTime()
\* is NaN, the difference with it is NaN, and the sort takes NaN for 0
compareDates(a, b) ==
    IF a.date = NoDate \/ b.date = NoDate THEN 0 ELSE a.date - b.date

\* items.sort((a, b) => a.date - b.date) (CustomerLedger.tsx:165): the sort is
\* stable, an item goes after the items already placed whose date is not later
RECURSIVE insertByDate(_, _)
insertByDate(sorted, item) ==
    IF sorted = << >> THEN <<item>>
    ELSE IF compareDates(Head(sorted), item) <= 0
         THEN <<Head(sorted)>> \o insertByDate(Tail(sorted), item)
         ELSE <<item>> \o sorted

\* a sort that turns the merged list round instead of ordering it by date
sortByDate_reversed(items) ==
    [i \in 1..Len(items) |-> items[Len(items) + 1 - i]]

RECURSIVE sortByDate(_)
sortByDate(items) ==
    IF items = << >> THEN << >>
    ELSE insertByDate(sortByDate(SubSeq(items, 1, Len(items) - 1)),
                      items[Len(items)])

\* a walk that accumulates the amount of an item instead of its balanceChange
RECURSIVE withBalance_amount(_, _)
withBalance_amount(items, currentBalance) ==
    IF items = << >> THEN << >>
    ELSE LET b == currentBalance + Head(items).amount
         IN <<[Head(items) EXCEPT !.runningBalance = b]>>
            \o withBalance_amount(Tail(items), b)

\* the running balance walk (CustomerLedger.tsx:167-178)
RECURSIVE withBalance(_, _)
withBalance(items, currentBalance) ==
    IF items = << >> THEN << >>
    ELSE LET b == currentBalance + Head(items).balanceChange
         IN <<[Head(items) EXCEPT !.runningBalance = b]>>
            \o withBalance(Tail(items), b)

\* sum of the values of a function over the keys in S
RECURSIVE SumFun(_, _)
SumFun(f, S) ==
    IF S = {} THEN 0
    ELSE LET k == CHOOSE x \in S : TRUE IN f[k] + SumFun(f, S \ {k})

\* per-shop balances that leave the expenses out
shopBalances_noExpenses(custId) ==
    LET ts   == getTransactionsByCustomer(custId)
        ps   == getPaymentsByCustomer(custId)
        keys == {INITIAL_SHOPS[i].id : i \in 1..Len(INITIAL_SHOPS)}
                \cup {ts[i].shopId : i \in 1..Len(ts)}
                \cup {ps[i].shopId : i \in 1..Len(ps)}
    IN [k \in keys |->
          SumSeq([i \in 1..Len(ts) |-> IF ts[i].shopId = k THEN ts[i].balance ELSE 0])
          - SumSeq([i \in 1..Len(ps) |-> IF ps[i].shopId = k THEN ps[i].amount ELSE 0])]

\* Calculate Balance Per Shop (CustomerLedger.tsx:106-125): one entry per shop
\* of the store and per shop id met in the customer's records
shopBalances(custId) ==
    LET ts   == getTransactionsByCustomer(custId)
        ps   == getPaymentsByCustomer(custId)
        es   == getExpensesByCustomer(custId)
        keys == {INITIAL_SHOPS[i].id : i \in 1..Len(INITIAL_SHOPS)}
                \cup {ts[i].shopId : i \in 1..Len(ts)}
                \cup {ps[i].shopId : i \in 1..Len(ps)}
                \cup {es[i].shopId : i \in 1..Len(es)}
    IN [k \in keys |->
          SumSeq([i \in 1..Len(ts) |-> IF ts[i].shopId = k THEN ts[i].balance ELSE 0])
          - SumSeq([i \in 1..Len(ps) |-> IF ps[i].shopId = k THEN ps[i].amount ELSE 0])
          + SumSeq([i \in 1..Len(es) |-> IF es[i].shopId = k THEN es[i].amount ELSE 0])]

\* loadCustomerData (CustomerLedger.tsx:93-183) for a customer of the list
loadCustomerData(custId) ==
    LET sorted == sortByDate(statementItems(custId))
    IN [statementData |-> withBalance(sorted, 0),
        shopBalances  |-> shopBalances(custId),
        totalBilled   |-> SumSeq([i \in 1..Len(sorted) |->
                             IF sorted[i].type \in {"SALE", "EXPENSE"}
                             THEN sorted[i].amount ELSE 0]),
        totalPaid     |-> SumSeq([i \in 1..Len(sorted) |->
                             IF sorted[i].type = "PAYMENT"
                             THEN sorted[i].amount ELSE 0])]

----------------------------------------------------------------------------
(* Inputs of the ledger handlers *)

\* customer ids handed to the handlers: a seeded wholesale customer, the
\* customers added since, and an id no customer has
CustomerInputs ==
    {"c2", "GUEST"} \cup
    {customers[i].id : i \in (Len(INITIAL_CUSTOMERS) + 1)..Len(customers)}

\* amounts typed in the payment and expense forms
PaymentAmounts ==
    {2000, 20000}

ExpenseAmounts ==
    {500}

\* the paid amount typed at the checkout; << >> leaves the field empty
PaidInputs ==
    {<< >>, <<0>>, <<3000>>, <<9000>>}

\* the cart of the ledger scenarios: ten shirts from shop1
shirtCart ==
    << [product |-> INITIAL_PRODUCTS[1], quantity |-> 10] >>

vars ==
    <<products, customers, transactions, payments, expenses, activities,
      dbInitialized, localStorage, now, rnd, ops, last, writtenOff,
      calls, remote, inflight, view, startup>>

\* a sale at the checkout of shop1
Checkout ==
    \E c \in CustomerInputs, paid \in PaidInputs :
        createTransaction(handleCheckout("shop1", c, shirtCart, paid))

Payment ==
    \E c \in CustomerInputs, a \in PaymentAmounts, s \in {"shop1", "shop2"} :
        recordPayment(c, a, s)

Expense ==
    \E c \in CustomerInputs, a \in ExpenseAmounts, d \in {0, now} :
        recordExpense(c, a, d, "shop2")

Next ==
    \/ Checkout
    \/ Payment
    \/ Expense
    \/ addCustomer

Spec ==
    Init /\ [][Next]_vars

----------------------------------------------------------------------------
(* Stock transfer of the synchronous store *)

\* the index of the first product of that shop with that name; 0 stands for -1
findIndexByShopAndName(prods, shopId, productName) ==
    IF \E i \in 1..Len(prods) : prods[i].shopId = shopId /\ prods[i].name = productName
    THEN CHOOSE i \in 1..Len(prods) :
            /\ prods[i].shopId = shopId /\ prods[i].name = productName
            /\ \A j \in 1..(i - 1) :
                  ~(prods[j].shopId = shopId /\ prods[j].name = productName)
    ELSE 0

\* a transfer that does not test the stock of the source
transferError_noStockTest(prods, productName, fromShopId, quantity) ==
    IF findIndexByShopAndName(prods, fromShopId, productName) = 0
    THEN "Product not found in source shop"
    ELSE "ok"

\* transferProduct, the two throws (mockDb.ts:276-283)
transferError(prods, productName, fromShopId, quantity) ==
    LET sourceIndex == findIndexByShopAndName(prods, fromShopId, productName)
    IN IF sourceIndex = 0 THEN "Product not found in source shop"
       ELSE IF prods[sourceIndex].stock < quantity THEN "Insufficient stock"
       ELSE "ok"

\* a transfer that forgets to deduct from the source
transferStock_noDeduct(prods, productName, fromShopId, toShopId, quantity, newId) ==
    LET sourceIndex == findIndexByShopAndName(prods, fromShopId, productName)
        destIndex   == findIndexByShopAndName(prods, toShopId, productName)
    IN IF destIndex > 0
       THEN [prods EXCEPT ![destIndex].stock = @ + quantity]
       ELSE Append(prods, [prods[sourceIndex] EXCEPT
                               !.id = newId, !.shopId = toShopId, !.stock = quantity])

\* a transfer whose new destination record keeps the stock of the source
transferStock_cloneStock(prods, productName, fromShopId, toShopId, quantity, newId) ==
    LET sourceIndex == findIndexByShopAndName(prods, fromShopId, productName)
        deducted    == [prods EXCEPT ![sourceIndex].stock = @ - quantity]
        destIndex   == findIndexByShopAndName(deducted, toShopId, productName)
    IN IF destIndex > 0
       THEN [deducted EXCEPT ![destIndex].stock = @ + quantity]
       ELSE Append(deducted, [deducted[sourceIndex] EXCEPT
                                  !.id = newId, !.shopId = toShopId])

\* transferProduct, deduct and add to dest (mockDb.ts:285-300)
transferStock(prods, productName, fromShopId, toShopId, quantity, newId) ==
    LET sourceIndex == findIndexByShopAndName(prods, fromShopId, productName)
        deducted    == [prods EXCEPT ![sourceIndex].stock = @ - quantity]
        destIndex   == findIndexByShopAndName(deducted, toShopId, productName)
    IN IF destIndex > 0
       THEN [deducted EXCEPT ![destIndex].stock = @ + quantity]
       ELSE Append(deducted, [deducted[sourceIndex] EXCEPT
                                  !.id = newId, !.shopId = toShopId, !.stock = quantity])

\* transferProduct (mockDb.ts:275-306)
transferProduct(productName, fromShopId, toShopId, quantity) ==
    LET error   == transferError(products, productName, fromShopId, quantity)
        created == findIndexByShopAndName(products, toShopId, productName) = 0
        newId   == "PROD-" \o ToString(now) \o "-" \o ToString(rnd)
    IN
    /\ ops < MaxOps
    /\ ops' = ops + 1
    /\ now' = clockAfterCall
    /\ last' = [op |-> "transferProduct", result |-> error,
                args |-> <<productName, fromShopId, toShopId, quantity>>]
    /\ IF error = "ok"
       THEN /\ products' = transferStock(products, productName, fromShopId,
                                         toShopId, quantity, newId)
            /\ activities' = log(activities, "STOCK_TRANSFER", fromShopId, "undefined",
                                 IF created THEN rnd + 1 ELSE rnd)
            /\ localStorage' = save(save(localStorage, "products", products'),
                                    "activities", activities')
            /\ inflight' = pushToCloud(inflight, {"products", "activities"},
                                       localStorage')
            /\ rnd' = IF created THEN rnd + 2 ELSE rnd + 1
       ELSE UNCHANGED <<products, activities, localStorage, rnd, inflight>>
    /\ UNCHANGED <<customers, transactions, payments, expenses, dbInitialized, startup, view, calls,
                   remote, writtenOff>>

----------------------------------------------------------------------------
(* Inputs of the inventory handlers *)

\* the product names of the transfer form, and one no shop holds
TransferNames ==
    {"Premium Cotton Shirt", "Leather Belt", "Hat"}

\* the shop of the inventory screen
TransferFrom ==
    {"shop1", "shop2"}

\* the destination select lists the other shops (Inventory.tsx:384)
TransferTo(fromShopId) ==
    {"shop1", "shop2", "shop3"} \ {fromShopId}

\* parseInt of the quantity typed in the transfer form (Inventory.tsx:170)
TransferQuantities ==
    {-5, 15, 200}

\* carts of the checkout: more belts than shop2 holds, and a cart whose first
\* product is no longer in the store
beltCart ==
    << [product |-> INITIAL_PRODUCTS[3], quantity |-> 25] >>

staleCart ==
    << [product |-> [id |-> "9", shopId |-> "shop1", name |-> "Hat",
                     category |-> "Clothing", price |-> 700,
                     wholesalePrice |-> 400, stock |-> 1],
        quantity |-> 1],
       [product |-> INITIAL_PRODUCTS[1], quantity |-> 1] >>

Transfer ==
    \E n \in TransferNames, f \in TransferFrom, q \in TransferQuantities :
        \E t \in TransferTo(f) : transferProduct(n, f, t, q)

Sale ==
    \E c \in {"c2", "GUEST"}, cart \in {shirtCart, beltCart, staleCart} :
        createTransaction(handleCheckout(cart[1].product.shopId, c, cart, <<0>>))

NextInv ==
    \/ Transfer
    \/ Sale

SpecInv ==
    Init /\ [][NextInv]_vars

----------------------------------------------------------------------------
(* Quantities the ledger claims speak of *)

\* the debt a customer id was seeded with (INITIAL_CUSTOMERS); a customer
\* added later starts at 0 (CustomerLedger.tsx:203)
OpeningDebt(custId) ==
    LET i == findIndexById(INITIAL_CUSTOMERS, custId)
    IN IF i > 0 THEN INITIAL_CUSTOMERS[i].totalDebt ELSE 0

SaleBalanceSum(custId) ==
    LET ts == getTransactionsByCustomer(custId)
    IN SumSeq([i \in 1..Len(ts) |-> ts[i].balance])

\* the part of the sale balances that createTransaction leaves out of the
\* debt: the overpaid amount of the sales whose balance is negative
OverpaidSum(custId) ==
    LET ts == getTransactionsByCustomer(custId)
    IN SumSeq([i \in 1..Len(ts) |-> IF ts[i].balance < 0 THEN 0 - ts[i].balance ELSE 0])

PaymentSum(custId) ==
    LET ps == getPaymentsByCustomer(custId)
    IN SumSeq([i \in 1..Len(ps) |-> ps[i].amount])

ExpenseSum(custId) ==
    LET es == getExpensesByCustomer(custId)
    IN SumSeq([i \in 1..Len(es) |-> es[i].amount])

EventSum(custId) ==
    SaleBalanceSum(custId) - PaymentSum(custId) + ExpenseSum(custId)

\* what lies between the debt and the sum of the recorded events
Unrecorded(custId) ==
    OpeningDebt(custId) + OverpaidSum(custId) + WrittenOff(custId)

Customers ==
    {customers[i] : i \in 1..Len(customers)}

ListedCustomers ==
    {customerList[i] : i \in 1..Len(customerList)}

----------------------------------------------------------------------------
(* C1 *)

\* C1 as stated: for every customer, totalDebt equals the sum of its sale
\* balances minus its payments plus its expenses, unless a payment of that
\* customer was floored at 0.
C1_AsStated ==
    \A c \in Customers :
        WrittenOff(c.id) = 0 => c.totalDebt = EventSum(c.id)

\* C1 amended: for every customer, totalDebt equals its opening (seeded) debt
\* plus the balances of its sales that are > 0 minus its payments plus its
\* expenses, plus the amounts discarded by the zero floor of its payments.
C1_DebtConservation ==
    \A c \in Customers :
        /\ WrittenOff(c.id) >= 0
        /\ c.totalDebt = OpeningDebt(c.id)
                         + (SaleBalanceSum(c.id) + OverpaidSum(c.id))
                         - PaymentSum(c.id) + ExpenseSum(c.id)
                         + WrittenOff(c.id)

\* a seeded customer with an overpaid sale, a floored payment and an expense
C1_Witness ==
    \E c \in Customers :
        /\ OpeningDebt(c.id) > 0
        /\ OverpaidSum(c.id) > 0
        /\ WrittenOff(c.id) > 0
        /\ ExpenseSum(c.id) > 0

----------------------------------------------------------------------------
(* C2 *)

LastRunningBalance(custId) ==
    LET st == loadCustomerData(custId).statementData
    IN st[Len(st)].runningBalance

\* C2 as stated: for every customer with a statement item, the running
\* balance of the last statement item equals the customer's totalDebt.
C2_AsStated ==
    \A c \in ListedCustomers :
        loadCustomerData(c.id).statementData # << >>
            => LastRunningBalance(c.id) = c.totalDebt

\* C2 amended: the running balance of the last statement item equals
\* totalDebt minus the customer's opening debt, minus the overpaid amounts of
\* its sales, minus the amounts discarded by the zero floor; it equals
\* totalDebt exactly when these three are all zero.
C2_StatementConsistency ==
    \A c \in ListedCustomers :
        loadCustomerData(c.id).statementData # << >>
            => /\ LastRunningBalance(c.id) = c.totalDebt - Unrecorded(c.id)
               /\ Unrecorded(c.id) >= 0
               /\ (LastRunningBalance(c.id) = c.totalDebt) <=> (Unrecorded(c.id) = 0)

\* a customer whose statement ends on its totalDebt, next to a customer whose
\* statement does not
C2_Witness ==
    /\ \E c \in ListedCustomers :
          /\ loadCustomerData(c.id).statementData # << >>
          /\ LastRunningBalance(c.id) = c.totalDebt
          /\ c.totalDebt > 0
    /\ \E c \in ListedCustomers :
          /\ loadCustomerData(c.id).statementData # << >>
          /\ LastRunningBalance(c.id) # c.totalDebt

----------------------------------------------------------------------------
(* C3 *)

ShopBalanceSum(custId) ==
    LET b == loadCustomerData(custId).shopBalances
    IN SumFun(b, DOMAIN b)

\* C3 as stated: for every customer the per-shop balances sum to totalDebt,
\* unless a payment of that customer was floored at 0.
C3_AsStated ==
    \A c \in ListedCustomers :
        WrittenOff(c.id) = 0 => ShopBalanceSum(c.id) = c.totalDebt

\* C3 amended: the per-shop balances sum to totalDebt minus the customer's
\* opening debt, minus the overpaid amounts of its sales, minus the amounts
\* discarded by the zero floor of its payments.
C3_ShopPartition ==
    \A c \in ListedCustomers :
        ShopBalanceSum(c.id) = c.totalDebt - Unrecorded(c.id)

\* a customer with a balance in two shops whose per-shop balances sum to its
\* totalDebt
C3_Witness ==
    \E c \in ListedCustomers :
        LET b == loadCustomerData(c.id).shopBalances
        IN /\ b["shop1"] # 0
           /\ b["shop2"] # 0
           /\ ShopBalanceSum(c.id) = c.totalDebt

----------------------------------------------------------------------------
(* Quantities the inventory claims speak of *)

\* the stock of the product of that name in that shop, 0 when the shop has none
StockOf(prods, shopId, productName) ==
    LET i == findIndexByShopAndName(prods, shopId, productName)
    IN IF i > 0 THEN prods[i].stock ELSE 0

\* the step is a call of transferProduct: last' holds its arguments
\* <<productName, fromShopId, toShopId, quantity>> and its outcome
TransferStep ==
    last'.op = "transferProduct"

TransferSucceeds ==
    TransferStep /\ last'.result = "ok"

----------------------------------------------------------------------------
(* C4 *)

\* C4: after transferProduct(p, A, B, q) succeeds, the stock of p in A plus
\* the stock of p in B equals the same sum before the call, and the stock of
\* p in A equals its previous value minus q.
C4_StockConservation ==
    [][TransferSucceeds =>
        LET p == last'.args[1]
            A == last'.args[2]
            B == last'.args[3]
            q == last'.args[4]
        IN /\ StockOf(products', A, p) + StockOf(products', B, p)
                = StockOf(products, A, p) + StockOf(products, B, p)
           /\ StockOf(products', A, p) = StockOf(products, A, p) - q
    ]_vars

\* a transfer of q > 0 has succeeded into a shop that held the product before
C4_Witness ==
    /\ last.op = "transferProduct"
    /\ last.result = "ok"
    /\ last.args[4] > 0
    /\ StockOf(products, last.args[3], last.args[1]) > last.args[4]

----------------------------------------------------------------------------
(* C5 *)

\* C5: when the source shop has no product of that name, or the quantity
\* exceeds the stock of the source product, transferProduct raises an error
\* and leaves every product record and the activity log as they were.
C5_FailedTransferAtomic ==
    [][TransferStep =>
        LET p == last'.args[1]
            A == last'.args[2]
            q == last'.args[4]
            sourceIndex == findIndexByShopAndName(products, A, p)
        IN (sourceIndex = 0 \/ q > products[sourceIndex].stock)
            => /\ last'.result = IF sourceIndex = 0
                                 THEN "Product not found in source shop"
                                 ELSE "Insufficient stock"
               /\ products' = products
               /\ activities' = activities
    ]_vars

\* a transfer of more than the source holds has been rejected
C5_Witness ==
    /\ last.op = "transferProduct"
    /\ last.result = "Insufficient stock"
    /\ last.args[4] > StockOf(products, last.args[2], last.args[1])

----------------------------------------------------------------------------
(* C6 *)

\* C6: a successful transfer of q of a product of shop A to a shop B that holds
\* no product of that name adds exactly one product, with a fresh id,
\* shopId = B, stock = q and the name, category and prices of the source; when
\* B holds a product of that name no record is added and its stock grows by q.
C6_TransferCreatesDestination ==
    [][TransferSucceeds =>
        LET p == last'.args[1]
            A == last'.args[2]
            B == last'.args[3]
            q == last'.args[4]
            sourceIndex == findIndexByShopAndName(products, A, p)
            destIndex   == findIndexByShopAndName(products, B, p)
            n == Len(products)
        IN IF destIndex = 0
           THEN /\ Len(products') = n + 1
                /\ \A i \in 1..n : products'[i].id = products[i].id
                /\ \A i \in 1..n : i # sourceIndex => products'[i] = products[i]
                /\ \A i \in 1..n : products[i].id # products'[n + 1].id
                /\ products'[n + 1].shopId = B
                /\ products'[n + 1].stock = q
                /\ products'[n + 1].name = products[sourceIndex].name
                /\ products'[n + 1].category = products[sourceIndex].category
                /\ products'[n + 1].price = products[sourceIndex].price
                /\ products'[n + 1].wholesalePrice = products[sourceIndex].wholesalePrice
           ELSE /\ Len(products') = n
                /\ \A i \in 1..n : products'[i].id = products[i].id
                /\ products'[destIndex].stock = products[destIndex].stock + q
    ]_vars

\* the record at the end of the product list was created by the last transfer
C6_Witness ==
    /\ last.op = "transferProduct"
    /\ last.result = "ok"
    /\ Len(products) > Len(INITIAL_PRODUCTS)
    /\ products[Len(products)].id = "PROD-" \o ToString(now - 1) \o "-" \o ToString(rnd - 2)
    /\ products[Len(products)].shopId = last.args[3]
    /\ products[Len(products)].stock = last.args[4]

----------------------------------------------------------------------------
(* C7 *)

\* C7: in every reachable state the stock of every product is >= 0.
C7_StockNonNegative ==
    \A i \in 1..Len(products) : products[i].stock >= 0

----------------------------------------------------------------------------
(* C8 *)

\* C8: a call of createTransaction either commits all of its sub-steps (the
\* sale is recorded, the stock of the product of every line item is
\* decremented, a balance > 0 is added to the customer's totalDebt) or none.
C8_SaleAllOrNothing ==
    [][last'.op = "createTransaction" =>
        LET t == last'.args[1]
            custIndex == findIndexById(customers, t.customerId)
            allCommitted ==
                /\ transactions' = <<t>> \o transactions
                /\ \A k \in 1..Len(t.items) :
                      findIndexById(products, t.items[k].productId) > 0
                /\ products' = updateStock(products, t.items)
                /\ t.balance > 0 =>
                      /\ custIndex > 0
                      /\ customers'[custIndex].totalDebt
                            = customers[custIndex].totalDebt + t.balance
            noneCommitted ==
                /\ transactions' = transactions
                /\ products' = products
                /\ customers' = customers
        IN allCommitted \/ noneCommitted
    ]_vars

----------------------------------------------------------------------------
(* The async store (src/unnamed/part_001): a handler runs from its call to its
   first await in one step, and from the answer to an await to the next one;
   the SQL store executes a statement when it answers it *)

MaxCalls ==
    2

\* saveToLocalStorage (part_001:261-271)
saveToLocalStorage(prods, custs, trans, pays, exps, acts) ==
    [k \in KEYS |->
        CASE k = "shops"        -> INITIAL_SHOPS
          [] k = "products"     -> prods
          [] k = "customers"    -> custs
          [] k = "transactions" -> trans
          [] k = "payments"     -> pays
          [] k = "expenses"     -> exps
          [] k = "activities"   -> acts]

\* SQL statements: UPDATE products SET stock, UPDATE customers SET total_debt,
\* INSERT INTO products, INSERT INTO any other table
noWrite ==
    [kind |-> "none", id |-> "", value |-> 0]

sqlWrite(kind, id, value) ==
    [kind |-> kind, id |-> id, value |-> value]

\* the SQL store executes a statement; an UPDATE of a missing row changes nothing
applyWrite(db, w) ==
    CASE w.kind = "updateStock" ->
            IF w.id \in DOMAIN db.products
            THEN [db EXCEPT !.products[w.id] = w.value] ELSE db
      [] w.kind = "insertProduct" ->
            [db EXCEPT !.products =
                [x \in DOMAIN db.products \cup {w.id} |->
                    IF x = w.id THEN w.value ELSE db.products[x]]]
      [] w.kind = "updateDebt" ->
            IF w.id \in DOMAIN db.customers
            THEN [db EXCEPT !.customers[w.id] = w.value] ELSE db
      [] w.kind = "insertRow" ->
            [db EXCEPT !.rows = @ \cup {w.id}]
      [] OTHER -> db

idleCall ==
    [op |-> "none", args |-> << >>, pc |-> "idle", pending |-> noWrite,
     sourceIndex |-> 0, custIndex |-> 0, item |-> 0, rowId |-> "",
     deducted |-> FALSE, added |-> FALSE, error |-> ""]

\* the state after init() has seeded an empty SQL store (part_001:125-258,
\* 298-320): the initial data in memory, in localStorage and in the tables
InitAsync ==
    /\ products = INITIAL_PRODUCTS
    /\ customers = INITIAL_CUSTOMERS
    /\ transactions = << >>
    /\ payments = << >>
    /\ expenses = << >>
    /\ activities = << >>
    /\ dbInitialized = TRUE
    /\ localStorage = saveToLocalStorage(INITIAL_PRODUCTS, INITIAL_CUSTOMERS,
                                         << >>, << >>, << >>, << >>)
    /\ now = 0
    /\ rnd = 0
    /\ ops = 0
    /\ last = [op |-> "init", result |-> "ok", args |-> << >>]
    /\ writtenOff = [c \in {} |-> 0]
    /\ calls = [c \in 1..MaxCalls |-> idleCall]
    /\ remote = [products  |-> [id \in {INITIAL_PRODUCTS[i].id : i \in 1..Len(INITIAL_PRODUCTS)} |->
                                  INITIAL_PRODUCTS[findIndexById(INITIAL_PRODUCTS, id)].stock],
                 customers |-> [id \in {INITIAL_CUSTOMERS[i].id : i \in 1..Len(INITIAL_CUSTOMERS)} |->
                                  INITIAL_CUSTOMERS[findIndexById(INITIAL_CUSTOMERS, id)].totalDebt],
                 rows |-> {}]
    /\ inflight = {}
    /\ view = emptyView
    /\ startup = started

\* a handler is called: the calls are numbered in the order they are made
CanStart(c) ==
    /\ calls[c].pc = "idle"
    /\ c > 1 => calls[c - 1].pc # "idle"

\* log (part_001:366-387), the INSERT it sends and does not make its caller wait for
logInsert(r) ==
    sqlWrite("insertRow", "log-" \o ToString(now) \o "-" \o ToString(r), 0)

\* the INSERT of log() is executed by the SQL store (part_001:383)
logInsertArrives ==
    \E w \in inflight :
        /\ remote' = applyWrite(remote, w)
        /\ inflight' = inflight \ {w}
        /\ UNCHANGED <<storeVars, dbInitialized, startup, view, localStorage, now, rnd, ops, last,
                       writtenOff, calls>>

\* the INSERT of log() fails and the error is caught (part_001:385)
logInsertFails ==
    \E w \in inflight :
        /\ inflight' = inflight \ {w}
        /\ UNCHANGED <<storeVars, dbInitialized, startup, view, localStorage, now, rnd, ops, last,
                       writtenOff, calls, remote>>

\* an awaited SQL statement fails: none of the handlers catches it, the call
\* ends by throwing at that await
sqlRejects(c) ==
    /\ calls[c].pc \in {"awaitDeduct", "awaitDest", "awaitStock", "awaitSaleDebt",
                        "awaitDebt", "awaitInsert"}
    /\ calls' = [calls EXCEPT ![c].pc = "thrown", ![c].pending = noWrite,
                              ![c].error = "sql"]
    /\ UNCHANGED <<storeVars, dbInitialized, startup, view, localStorage, now, rnd, ops, last,
                   writtenOff, remote, inflight>>

\* transferProduct up to its first await (part_001:437-444)
transferProductAsync(c, productName, fromShopId, toShopId, quantity) ==
    LET error       == transferError(products, productName, fromShopId, quantity)
        sourceIndex == findIndexByShopAndName(products, fromShopId, productName)
    IN
    /\ CanStart(c)
    /\ now' = clockAfterCall
    /\ IF error = "ok"
       THEN /\ products' = [products EXCEPT ![sourceIndex].stock = @ - quantity]
            /\ calls' = [calls EXCEPT ![c] =
                  [idleCall EXCEPT
                      !.op = "transferProduct",
                      !.args = <<productName, fromShopId, toShopId, quantity>>,
                      !.pc = "awaitDeduct",
                      !.sourceIndex = sourceIndex,
                      !.deducted = TRUE,
                      !.pending = sqlWrite("updateStock", products[sourceIndex].id,
                                           products'[sourceIndex].stock)]]
       ELSE /\ UNCHANGED products
            /\ calls' = [calls EXCEPT ![c] =
                  [idleCall EXCEPT
                      !.op = "transferProduct",
                      !.args = <<productName, fromShopId, toShopId, quantity>>,
                      !.pc = "thrown",
                      !.error = error]]
    /\ UNCHANGED <<customers, transactions, payments, expenses, activities,
                   dbInitialized, startup, view, localStorage, rnd, ops, last, writtenOff, remote,
                   inflight>>

\* a transfer that adds a record to the destination without looking for one
transferProductAfterDeduct_alwaysNew(c) ==
    LET call        == calls[c]
        toShopId    == call.args[3]
        quantity    == call.args[4]
        newProduct  == [products[call.sourceIndex] EXCEPT
                            !.id = "PROD-" \o ToString(now) \o "-" \o ToString(rnd),
                            !.shopId = toShopId, !.stock = quantity]
    IN
    /\ call.pc = "awaitDeduct"
    /\ remote' = applyWrite(remote, call.pending)
    /\ now' = clockAfterCall
    /\ products' = Append(products, newProduct)
    /\ calls' = [calls EXCEPT ![c].pc = "awaitDest", ![c].added = TRUE,
                    ![c].pending = sqlWrite("insertProduct", newProduct.id,
                                            newProduct.stock)]
    /\ rnd' = rnd + 1
    /\ UNCHANGED <<customers, transactions, payments, expenses, activities,
                   dbInitialized, startup, view, localStorage, ops, last, writtenOff, inflight>>

\* transferProduct from the answer to the UPDATE of the source to the next
\* await (part_001:446-465)
transferProductAfterDeduct(c) ==
    LET call        == calls[c]
        productName == call.args[1]
        toShopId    == call.args[3]
        quantity    == call.args[4]
        destIndex   == findIndexByShopAndName(products, toShopId, productName)
        newProduct  == [products[call.sourceIndex] EXCEPT
                            !.id = "PROD-" \o ToString(now) \o "-" \o ToString(rnd),
                            !.shopId = toShopId, !.stock = quantity]
    IN
    /\ call.pc = "awaitDeduct"
    /\ remote' = applyWrite(remote, call.pending)
    /\ now' = clockAfterCall
    /\ IF destIndex > 0
       THEN /\ products' = [products EXCEPT ![destIndex].stock = @ + quantity]
            /\ calls' = [calls EXCEPT ![c].pc = "awaitDest", ![c].added = TRUE,
                            ![c].pending = sqlWrite("updateStock", products[destIndex].id,
                                                    products'[destIndex].stock)]
            /\ UNCHANGED rnd
       ELSE /\ products' = Append(products, newProduct)
            /\ calls' = [calls EXCEPT ![c].pc = "awaitDest", ![c].added = TRUE,
                            ![c].pending = sqlWrite("insertProduct", newProduct.id,
                                                    newProduct.stock)]
            /\ rnd' = rnd + 1
    /\ UNCHANGED <<customers, transactions, payments, expenses, activities,
                   dbInitialized, startup, view, localStorage, ops, last, writtenOff, inflight>>

\* transferProduct from the answer to the write of the destination to its
\* return (part_001:467-471)
transferProductAfterDest(c) ==
    LET call == calls[c] IN
    /\ call.pc = "awaitDest"
    /\ remote' = applyWrite(remote, call.pending)
    /\ now' = clockAfterCall
    /\ activities' = log(activities, "STOCK_TRANSFER", call.args[2], "undefined", rnd)
    /\ inflight' = inflight \cup {logInsert(rnd)}
    /\ rnd' = rnd + 1
    /\ localStorage' = saveToLocalStorage(products, customers, transactions,
                                          payments, expenses, activities')
    /\ calls' = [calls EXCEPT ![c].pc = "done", ![c].pending = noWrite]
    /\ UNCHANGED <<products, customers, transactions, payments, expenses,
                   dbInitialized, startup, view, ops, last, writtenOff>>

\* recordPayment up to its first await (part_001:538-558)
recordPaymentAsync(c, customerId, amount, shopId) ==
    LET custIndex == findIndexById(customers, customerId)
        base      == [idleCall EXCEPT !.op = "recordPayment",
                                      !.args = <<customerId, amount, shopId>>,
                                      !.custIndex = custIndex]
    IN
    /\ CanStart(c)
    /\ now' = clockAfterCall
    /\ IF custIndex > 0
       THEN LET cust    == customers[custIndex]
                newDebt == debtAfterPayment(cust.totalDebt, amount)
                payment == [id |-> "r" \o ToString(rnd),
                            shopId |-> shopOrUnknown(shopId),
                            customerId |-> customerId,
                            amount |-> amount, date |-> now]
            IN /\ customers' = [customers EXCEPT ![custIndex].totalDebt = newDebt]
               /\ payments' = Append(payments, payment)
               /\ activities' = log(activities, "PAYMENT", shopId, customerId, rnd + 1)
               /\ inflight' = inflight \cup {logInsert(rnd + 1)}
               /\ rnd' = rnd + 2
               /\ localStorage' = saveToLocalStorage(products, customers', transactions,
                                                     payments', expenses, activities')
               /\ writtenOff' = AddWrittenOff(customerId,
                                    IF amount > cust.totalDebt
                                    THEN amount - cust.totalDebt ELSE 0)
               /\ calls' = [calls EXCEPT ![c] =
                     [base EXCEPT !.pc = "awaitDebt", !.rowId = payment.id,
                                  !.pending = sqlWrite("updateDebt", customerId, newDebt)]]
       ELSE /\ calls' = [calls EXCEPT ![c] = [base EXCEPT !.pc = "done"]]
            /\ UNCHANGED <<customers, payments, activities, inflight, rnd,
                           localStorage, writtenOff>>
    /\ UNCHANGED <<products, transactions, expenses, dbInitialized, startup, view, ops, last, remote>>

\* recordExpense up to its first await (part_001:565-585)
recordExpenseAsync(c, customerId, amount, date, shopId) ==
    LET custIndex == findIndexById(customers, customerId)
        base      == [idleCall EXCEPT !.op = "recordExpense",
                                      !.args = <<customerId, amount, date, shopId>>,
                                      !.custIndex = custIndex]
    IN
    /\ CanStart(c)
    /\ now' = clockAfterCall
    /\ IF custIndex > 0
       THEN LET newDebt == customers[custIndex].totalDebt + amount
                expense == [id |-> "exp-" \o ToString(now),
                            shopId |-> shopOrUnknown(shopId),
                            customerId |-> customerId,
                            amount |-> amount, date |-> date]
            IN /\ customers' = [customers EXCEPT ![custIndex].totalDebt = newDebt]
               /\ expenses' = Append(expenses, expense)
               /\ activities' = log(activities, "EXPENSE", shopId, customerId, rnd)
               /\ inflight' = inflight \cup {logInsert(rnd)}
               /\ rnd' = rnd + 1
               /\ localStorage' = saveToLocalStorage(products, customers', transactions,
                                                     payments, expenses', activities')
               /\ calls' = [calls EXCEPT ![c] =
                     [base EXCEPT !.pc = "awaitDebt", !.rowId = expense.id,
                                  !.pending = sqlWrite("updateDebt", customerId, newDebt)]]
       ELSE /\ calls' = [calls EXCEPT ![c] = [base EXCEPT !.pc = "done"]]
            /\ UNCHANGED <<customers, expenses, activities, inflight, rnd, localStorage>>
    /\ UNCHANGED <<products, transactions, payments, dbInitialized, startup, view, ops, last,
                   writtenOff, remote>>

\* recordPayment and recordExpense from the answer to the UPDATE of total_debt
\* to the INSERT of the row (part_001:558-560, 585-587)
debtUpdateAnswered(c) ==
    LET call == calls[c] IN
    /\ call.pc = "awaitDebt"
    /\ remote' = applyWrite(remote, call.pending)
    /\ calls' = [calls EXCEPT ![c].pc = "awaitInsert",
                              ![c].pending = sqlWrite("insertRow", call.rowId, 0)]
    /\ UNCHANGED <<storeVars, dbInitialized, startup, view, localStorage, now, rnd, ops, last,
                   writtenOff, inflight>>

\* the last INSERT of recordPayment, recordExpense and createTransaction is
\* answered and the call returns (part_001:533-536, 559-563, 586-590)
insertAnswered(c) ==
    LET call == calls[c] IN
    /\ call.pc = "awaitInsert"
    /\ remote' = applyWrite(remote, call.pending)
    /\ calls' = [calls EXCEPT ![c].pc = "done", ![c].pending = noWrite]
    /\ UNCHANGED <<storeVars, dbInitialized, startup, view, localStorage, now, rnd, ops, last,
                   writtenOff, inflight>>

\* the first line item from position k on whose product is found, 0 if none
\* (part_001:512-514)
nextFound(prods, items, k) ==
    LET found == {j \in k..Len(items) : findIndexById(prods, items[j].productId) > 0}
    IN IF found = {} THEN 0 ELSE CHOOSE j \in found : \A x \in found : j <= x

\* createTransaction from its save to its last await (part_001:529-534)
saleFinish(c, t, base, trans) ==
    /\ activities' = log(activities, "SALE", t.shopId, t.customerId, rnd)
    /\ inflight' = inflight \cup {logInsert(rnd)}
    /\ rnd' = rnd + 1
    /\ localStorage' = saveToLocalStorage(products, customers, trans,
                                          payments, expenses, activities')
    /\ calls' = [calls EXCEPT ![c] =
          [base EXCEPT !.pc = "awaitInsert", !.item = 0,
                       !.pending = sqlWrite("insertRow", t.id, 0)]]

\* createTransaction from the debt update to the next await (part_001:520-534)
saleDebt(c, t, base, trans) ==
    LET custIndex == findIndexById(customers, t.customerId) IN
    IF t.balance > 0 /\ custIndex > 0
    THEN /\ customers' = [customers EXCEPT ![custIndex].totalDebt = @ + t.balance]
         /\ calls' = [calls EXCEPT ![c] =
               [base EXCEPT !.pc = "awaitSaleDebt", !.item = 0, !.custIndex = custIndex,
                            !.pending = sqlWrite("updateDebt", t.customerId,
                                                 customers'[custIndex].totalDebt)]]
         /\ UNCHANGED <<activities, inflight, rnd, localStorage>>
    ELSE /\ saleFinish(c, t, base, trans)
         /\ UNCHANGED customers

\* createTransaction from line item k of the stock loop to the next await
\* (part_001:512-534)
saleStock(c, t, base, trans, k) ==
    LET j == nextFound(products, t.items, k) IN
    IF j > 0
    THEN LET prodIndex == findIndexById(products, t.items[j].productId) IN
         /\ products' = [products EXCEPT ![prodIndex].stock = @ - t.items[j].quantity]
         /\ calls' = [calls EXCEPT ![c] =
               [base EXCEPT !.pc = "awaitStock", !.item = j,
                            !.pending = sqlWrite("updateStock", t.items[j].productId,
                                                 products'[prodIndex].stock)]]
         /\ UNCHANGED <<customers, activities, inflight, rnd, localStorage>>
    ELSE /\ saleDebt(c, t, base, trans)
         /\ UNCHANGED products

\* createTransaction up to its first await (part_001:508-516)
createTransactionAsync(c, transaction) ==
    /\ CanStart(c)
    /\ now' = clockAfterCall
    /\ transactions' = <<transaction>> \o transactions
    /\ saleStock(c, transaction,
                 [idleCall EXCEPT !.op = "createTransaction", !.args = <<transaction>>],
                 transactions', 1)
    /\ UNCHANGED <<payments, expenses, dbInitialized, startup, view, ops, last, writtenOff, remote>>

\* createTransaction from the answer to a stock UPDATE to the next await
\* (part_001:516-534)
createTransactionAfterStock(c) ==
    LET call == calls[c] IN
    /\ call.pc = "awaitStock"
    /\ remote' = applyWrite(remote, call.pending)
    /\ now' = clockAfterCall
    /\ saleStock(c, call.args[1], call, transactions, call.item + 1)
    /\ UNCHANGED <<transactions, payments, expenses, dbInitialized, startup, view, ops, last,
                   writtenOff>>

\* createTransaction from the answer to the UPDATE of total_debt to the next
\* await (part_001:525-534)
createTransactionAfterDebt(c) ==
    LET call == calls[c] IN
    /\ call.pc = "awaitSaleDebt"
    /\ remote' = applyWrite(remote, call.pending)
    /\ now' = clockAfterCall
    /\ saleFinish(c, call.args[1], call, transactions)
    /\ UNCHANGED <<products, customers, transactions, payments, expenses,
                   dbInitialized, startup, view, ops, last, writtenOff>>

\* what the user does while calls are in flight
AsyncTransferQuantities ==
    {15, 200}

AsyncPaymentAmounts ==
    {2000}

AsyncTransfer ==
    \E c \in 1..MaxCalls, q \in AsyncTransferQuantities :
        transferProductAsync(c, "Leather Belt", "shop2", "shop3", q)

AsyncPayment ==
    \E c \in 1..MaxCalls, amount \in AsyncPaymentAmounts :
        recordPaymentAsync(c, "c2", amount, "shop1")

AsyncExpense ==
    \E c \in 1..MaxCalls, amount \in ExpenseAmounts :
        recordExpenseAsync(c, "c2", amount, now, "shop2")

AsyncSale ==
    \E c \in 1..MaxCalls :
        createTransactionAsync(c, handleCheckout("shop1", "c2", shirtCart, <<3000>>))

TransferAfterDeduct ==
    \E c \in 1..MaxCalls : transferProductAfterDeduct(c)

TransferAfterDest ==
    \E c \in 1..MaxCalls : transferProductAfterDest(c)

SaleAfterStock ==
    \E c \in 1..MaxCalls : createTransactionAfterStock(c)

SaleAfterDebt ==
    \E c \in 1..MaxCalls : createTransactionAfterDebt(c)

DebtUpdateAnswered ==
    \E c \in 1..MaxCalls : debtUpdateAnswered(c)

InsertAnswered ==
    \E c \in 1..MaxCalls : insertAnswered(c)

SqlRejects ==
    \E c \in 1..MaxCalls : sqlRejects(c)

NextAsync ==
    \/ AsyncTransfer
    \/ AsyncPayment
    \/ AsyncExpense
    \/ AsyncSale
    \/ TransferAfterDeduct
    \/ TransferAfterDest
    \/ SaleAfterStock
    \/ SaleAfterDebt
    \/ DebtUpdateAnswered
    \/ InsertAnswered
    \/ SqlRejects
    \/ logInsertArrives
    \/ logInsertFails

SpecAsync ==
    InitAsync /\ [][NextAsync]_vars

----------------------------------------------------------------------------
(* Claims about the async store *)

\* a call has ended, by return or by throw
Ended(c) ==
    calls[c].pc \in {"done", "thrown"}

\* a call has returned
Returned(c) ==
    calls[c].pc = "done"

\* the operations that change a customer's debt
DebtOps ==
    {"createTransaction", "recordPayment", "recordExpense"}

\* C9: once a call of the async transferProduct has ended, by return or by
\* throw, the in-memory products carry both the decrement of the source and
\* the increment or creation of the destination, or neither of them
C9_AsyncTransferAtomic ==
    \A c \in DOMAIN calls :
        (calls[c].op = "transferProduct" /\ Ended(c))
            => (calls[c].deducted <=> calls[c].added)

\* C10: once two overlapping debt-changing calls on one customer have both
\* returned, the customer's total debt in memory and in the SQL store is the
\* opening debt changed by both calls
C10_NoLostDebtUpdate ==
    (\A c \in DOMAIN calls : calls[c].op \in DebtOps /\ Returned(c))
        => \A i \in 1..Len(customers) :
              LET cust == customers[i] IN
              /\ cust.totalDebt = OpeningDebt(cust.id) + SaleBalanceSum(cust.id)
                                    + OverpaidSum(cust.id) - PaymentSum(cust.id)
                                    + ExpenseSum(cust.id) + WrittenOff(cust.id)
              /\ remote.customers[cust.id] = cust.totalDebt

----------------------------------------------------------------------------
(* C11 *)

\* C11: no call of a mutating operation ends by throwing because an awaited
\* write to the SQL store failed; the failure of a remote write is never
\* reported to the caller as a failure of the mutation.
C11_RemoteFailureNotSurfaced ==
    \A c \in DOMAIN calls :
        calls[c].pc = "thrown" => calls[c].error # "sql"

----------------------------------------------------------------------------
(* C12 *)

\* the calls that returned after applying their mutation
SuccessfulCalls ==
    {c \in DOMAIN calls :
        /\ Returned(c)
        /\ calls[c].op \in {"recordPayment", "recordExpense"} => calls[c].custIndex > 0}

\* C12: every successful call of a mutating operation adds exactly one entry
\* to the activity log and a call that fails adds none: once every call made
\* has ended, the log holds one entry for each successful call and no other.
C12_OneEntryPerSuccess ==
    (\A c \in DOMAIN calls : calls[c].pc = "idle" \/ Ended(c))
        => Len(activities) = Cardinality(SuccessfulCalls)

----------------------------------------------------------------------------
(* Background synchronisation of the sync store (mockDb.ts:100-159): the
   constructor starts initDatabase and returns; the cloud table app_storage
   holds one row per key, kept in remote.rows *)

\* INSERT ... ON CONFLICT (key) DO UPDATE (mockDb.ts:118-122) executed by the
\* cloud store
upsert(db, w) ==
    [db EXCEPT !.rows = {r \in @ : r.key # w.id} \cup {[key |-> w.id, value |-> w.value]}]

\* initDatabase: CREATE TABLE is answered, the flag is set and pullFromCloud
\* sends its SELECT (mockDb.ts:100-108, 128-131)
initDatabaseConnected ==
    /\ ~dbInitialized
    /\ calls = << >>
    /\ dbInitialized' = TRUE
    /\ calls' = <<[op |-> "pullFromCloud", pc |-> "awaitSelect", rows |-> {}]>>
    /\ UNCHANGED <<storeVars, localStorage, now, rnd, ops, last, writtenOff, remote,
                   inflight, view, startup>>

\* initDatabase: CREATE TABLE fails, the error is caught and the store stays
\* local (mockDb.ts:109-112)
initDatabaseFails ==
    /\ ~dbInitialized
    /\ calls = << >>
    /\ calls' = <<[op |-> "initDatabase", pc |-> "failed", rows |-> {}]>>
    /\ UNCHANGED <<storeVars, dbInitialized, startup, view, localStorage, now, rnd, ops, last,
                   writtenOff, remote, inflight>>

\* the cloud store executes the SELECT of pullFromCloud (mockDb.ts:131)
selectExecutes ==
    /\ Len(calls) = 1
    /\ calls[1].pc = "awaitSelect"
    /\ calls' = <<[calls[1] EXCEPT !.pc = "awaitRows", !.rows = remote.rows]>>
    /\ UNCHANGED <<storeVars, dbInitialized, startup, view, localStorage, now, rnd, ops, last,
                   writtenOff, remote, inflight>>

\* the data of a key after pullFromCloud has gone through the rows
pulled(rows, key, current) ==
    IF \E r \in rows : r.key = key
    THEN (CHOOSE r \in rows : r.key = key).value
    ELSE current

\* pullFromCloud from the answer to its SELECT to its end (mockDb.ts:132-155)
pullFromCloudAnswered ==
    /\ Len(calls) = 1
    /\ calls[1].pc = "awaitRows"
    /\ LET rows == calls[1].rows IN
        /\ localStorage' = [k \in KEYS |-> pulled(rows, k, localStorage[k])]
        /\ products' = pulled(rows, "products", products)
        /\ customers' = pulled(rows, "customers", customers)
        /\ transactions' = pulled(rows, "transactions", transactions)
        /\ payments' = pulled(rows, "payments", payments)
        /\ expenses' = pulled(rows, "expenses", expenses)
        /\ activities' = pulled(rows, "activities", activities)
    /\ calls' = <<[calls[1] EXCEPT !.pc = "done", !.rows = {}]>>
    /\ UNCHANGED <<dbInitialized, startup, view, now, rnd, ops, last, writtenOff, remote, inflight>>

\* the SELECT of pullFromCloud fails and the error is caught (mockDb.ts:156-158)
pullFromCloudFails ==
    /\ Len(calls) = 1
    /\ calls[1].pc \in {"awaitSelect", "awaitRows"}
    /\ calls' = <<[calls[1] EXCEPT !.pc = "done", !.rows = {}]>>
    /\ UNCHANGED <<storeVars, dbInitialized, startup, view, localStorage, now, rnd, ops, last,
                   writtenOff, remote, inflight>>

\* an upsert sent by pushToCloud is executed by the cloud store
pushToCloudArrives ==
    \E w \in inflight :
        /\ w.kind = "upsert"
        /\ remote' = upsert(remote, w)
        /\ inflight' = inflight \ {w}
        /\ UNCHANGED <<storeVars, dbInitialized, startup, view, localStorage, now, rnd, ops, last,
                       writtenOff, calls>>

\* an upsert sent by pushToCloud fails and the error is caught (mockDb.ts:123-125)
pushToCloudFails ==
    \E w \in inflight :
        /\ w.kind = "upsert"
        /\ inflight' = inflight \ {w}
        /\ UNCHANGED <<storeVars, dbInitialized, startup, view, localStorage, now, rnd, ops, last,
                       writtenOff, calls, remote>>

MaxSyncOps ==
    2

\* what the user does while the store synchronises
SyncPayment ==
    /\ ops < MaxSyncOps
    /\ recordPayment("c2", 2000, "shop1")

NextSync ==
    \/ initDatabaseConnected
    \/ initDatabaseFails
    \/ selectExecutes
    \/ pullFromCloudAnswered
    \/ pullFromCloudFails
    \/ pushToCloudArrives
    \/ pushToCloudFails
    \/ SyncPayment

SpecSync ==
    Init /\ [][NextSync]_vars

----------------------------------------------------------------------------
(* C13 *)

\* C13: the activity log is append-only: every entry of the log is still in
\* the log, with the same fields, after any step of the store, background
\* synchronisation included.
C13_LogAppendOnly ==
    [][\A i \in 1..Len(activities) :
          \E j \in 1..Len(activities') : activities'[j] = activities[i]]_vars

----------------------------------------------------------------------------
(* Reads of the sync store and of the ledger screen. A read is recorded in
   last like any other call, with the value it returned *)

\* Array.prototype.sort with (a, b) => date(b) - date(a): stable, newest first
RECURSIVE insertNewestFirst(_, _)
insertNewestFirst(sorted, item) ==
    IF sorted = << >> THEN <<item>>
    ELSE IF Head(sorted).date >= item.date
         THEN <<Head(sorted)>> \o insertNewestFirst(Tail(sorted), item)
         ELSE <<item>> \o sorted

\* a sort that puts the oldest entry first
RECURSIVE sortNewestFirst_oldestFirst(_)
sortNewestFirst_oldestFirst(items) ==
    IF items = << >> THEN << >>
    ELSE insertByDate(sortNewestFirst_oldestFirst(SubSeq(items, 1, Len(items) - 1)),
                      items[Len(items)])

RECURSIVE sortNewestFirst(_)
sortNewestFirst(items) ==
    IF items = << >> THEN << >>
    ELSE insertNewestFirst(sortNewestFirst(SubSeq(items, 1, Len(items) - 1)),
                           items[Len(items)])

\* the entries getActivities sorts: all of them when no shop is given ("")
filteredByShop(acts, shopId) ==
    IF shopId # "" THEN SelectSeq(acts, LAMBDA a : a.shopId = shopId) ELSE acts

\* a read that keeps the sorted array it returns as the array of the store
activitiesAfterGetActivities_filtered(acts, shopId) ==
    sortNewestFirst(filteredByShop(acts, shopId))

\* this.activities after getActivities: without a shop the sort is applied to
\* the array of the store itself (mockDb.ts:205-209)
activitiesAfterGetActivities(acts, shopId) ==
    IF shopId # "" THEN acts ELSE sortNewestFirst(acts)

\* a read that takes the entries it returns out of the store
activitiesAfterGetByCustomer_taken(acts, customerId) ==
    SelectSeq(acts, LAMBDA a : a.customerId # customerId)

\* a read that sorts and keeps its filtered copy as the array of the store
activitiesAfterGetByCustomer_kept(acts, customerId) ==
    sortNewestFirst(SelectSeq(acts, LAMBDA a : a.customerId = customerId))

\* this.activities after getActivitiesByCustomer: filter makes a copy, the
\* sort is applied to the copy (mockDb.ts:212-216)
activitiesAfterGetByCustomer(acts, customerId) ==
    acts

\* getActivities (mockDb.ts:204-210)
getActivities(shopId) ==
    /\ ops < MaxOps
    /\ ops' = ops + 1
    /\ now' = clockAfterCall
    /\ last' = [op |-> "getActivities", result |-> "ok", args |-> <<shopId>>,
                returned |-> sortNewestFirst(filteredByShop(activities, shopId))]
    /\ activities' = activitiesAfterGetActivities(activities, shopId)
    /\ UNCHANGED <<products, customers, transactions, payments, expenses,
                   dbInitialized, startup, view, localStorage, rnd, writtenOff, calls, remote, inflight>>

\* getActivitiesByCustomer (mockDb.ts:212-216)
getActivitiesByCustomer(customerId) ==
    /\ ops < MaxOps
    /\ ops' = ops + 1
    /\ now' = clockAfterCall
    /\ last' = [op |-> "getActivitiesByCustomer", result |-> "ok",
                args |-> <<customerId>>,
                returned |-> sortNewestFirst(
                    SelectSeq(activities, LAMBDA a : a.customerId = customerId))]
    /\ activities' = activitiesAfterGetByCustomer(activities, customerId)
    /\ UNCHANGED <<products, customers, transactions, payments, expenses,
                   dbInitialized, startup, view, localStorage, rnd, writtenOff, calls, remote, inflight>>

\* history: the call before this one computed the statement of the same
\* customer, so that no mutating call lies between the two
SameLoadAsLast(custId) ==
    /\ last.op = "loadCustomerData"
    /\ last.result = "ok"
    /\ last.args = <<custId>>

\* a customer is selected on the ledger screen and loadCustomerData sets the
\* statement, the balances per shop, the totals and the customer's activities
\* (CustomerLedger.tsx:85-89, 93-183); nothing is set for a customer that is
\* not in the list
selectCustomer(custId) ==
    LET listed == \E i \in 1..Len(customerList) : customerList[i].id = custId IN
    /\ ops < MaxOps
    /\ ops' = ops + 1
    /\ now' = clockAfterCall
    /\ last' = IF listed
               THEN [op |-> "loadCustomerData", result |-> "ok", args |-> <<custId>>,
                     returned |->
                        [statement |-> loadCustomerData(custId),
                         customerActivities |-> sortNewestFirst(
                            SelectSeq(activities, LAMBDA a : a.customerId = custId))],
                     again |-> SameLoadAsLast(custId)]
               ELSE [op |-> "loadCustomerData", result |-> "noop", args |-> <<custId>>,
                     returned |-> << >>, again |-> FALSE]
    /\ activities' = IF listed THEN activitiesAfterGetByCustomer(activities, custId)
                     ELSE activities
    /\ view' = IF listed
               THEN [statementData |-> loadCustomerData(custId).statementData,
                     shopBalances |-> loadCustomerData(custId).shopBalances,
                     totalBilled |-> loadCustomerData(custId).totalBilled,
                     totalPaid |-> loadCustomerData(custId).totalPaid,
                     customerActivities |-> sortNewestFirst(
                        SelectSeq(activities, LAMBDA a : a.customerId = custId))]
               ELSE view
    /\ UNCHANGED <<products, customers, transactions, payments, expenses,
                   dbInitialized, startup, localStorage, rnd, writtenOff, calls, remote, inflight>>

\* the shop filter of the activity screen; "" is no shop
ShopFilters ==
    {"", "shop1", "shop2", "shop3"}

ReadActivities ==
    \E s \in ShopFilters : getActivities(s)

ReadCustomerActivities ==
    \E c \in CustomerInputs : getActivitiesByCustomer(c)

SelectCustomer ==
    \E c \in CustomerInputs : selectCustomer(c)

NextRead ==
    \/ Checkout
    \/ Payment
    \/ Expense
    \/ addCustomer
    \/ ReadActivities
    \/ ReadCustomerActivities
    \/ SelectCustomer

SpecRead ==
    Init /\ [][NextRead]_vars

----------------------------------------------------------------------------
(* C14 *)

\* the entries of a list, each once
Entries(seq) ==
    {seq[i] : i \in 1..Len(seq)}

NewestFirst(seq) ==
    \A i \in 1..(Len(seq) - 1) : seq[i].date >= seq[i + 1].date

\* C14: getActivities(shopId) and getActivitiesByCustomer(customerId) return
\* exactly the entries of the log that match the filter (all of them when no
\* shop is given), each once, ordered newest first.
C14_ActivitiesNewestFirst ==
    [][/\ last'.op = "getActivities" =>
            LET shopId   == last'.args[1]
                returned == last'.returned
                matching == {i \in 1..Len(activities) :
                                shopId = "" \/ activities[i].shopId = shopId}
            IN /\ Entries(returned) = {activities[i] : i \in matching}
               /\ Len(returned) = Cardinality(matching)
               /\ NewestFirst(returned)
       /\ last'.op = "getActivitiesByCustomer" =>
            LET customerId == last'.args[1]
                returned   == last'.returned
                matching   == {i \in 1..Len(activities) :
                                  activities[i].customerId = customerId}
            IN /\ Entries(returned) = {activities[i] : i \in matching}
               /\ Len(returned) = Cardinality(matching)
               /\ NewestFirst(returned)
    ]_vars

\* a read by shop has returned two or more entries and left others out, and
\* the newest one is newer than the oldest one
C14_Witness ==
    /\ last.op = "getActivities"
    /\ last.args = <<"shop1">>
    /\ Len(last.returned) >= 2
    /\ Len(last.returned) < Len(activities)
    /\ last.returned[1].date > last.returned[Len(last.returned)].date

----------------------------------------------------------------------------
(* C15 *)

\* a transfer of shirts from the shop of the checkout to its neighbour
ShirtTransfer ==
    transferProduct("Premium Cotton Shirt", "shop1", "shop2", 15)

NextSales ==
    \/ Checkout
    \/ Payment
    \/ Expense
    \/ ShirtTransfer

SpecSales ==
    Init /\ [][NextSales]_vars

\* C15: the status of a recorded sale is PAID when its balance
\* totalAmount - paidAmount is <= 0, UNPAID when paidAmount is 0 and the
\* balance is > 0, PARTIAL otherwise; and a step of the store leaves the
\* status, balance and amounts of every sale recorded before it as they were.
C15_SaleStatusFixed ==
    [][/\ \A i \in 1..Len(transactions') :
             LET t == transactions'[i] IN
             /\ t.balance = t.totalAmount - t.paidAmount
             /\ t.status = "PAID" <=> t.balance <= 0
             /\ t.status = "UNPAID" <=> (t.paidAmount = 0 /\ t.balance > 0)
             /\ t.status = "PARTIAL" <=> (t.paidAmount # 0 /\ t.balance > 0)
       /\ Len(transactions') >= Len(transactions)
       /\ \A i \in 1..Len(transactions) :
             transactions'[i + Len(transactions') - Len(transactions)] = transactions[i]
    ]_vars

\* a payment has been taken from a customer who has a PARTIAL sale on record,
\* next to a PAID and an UNPAID sale
C15_Witness ==
    /\ last.op = "recordPayment"
    /\ last.result = "ok"
    /\ \E i \in 1..Len(transactions) :
          /\ transactions[i].status = "PARTIAL"
          /\ transactions[i].customerId = last.args[1]
    /\ \E i \in 1..Len(transactions) :
          transactions[i].status \in {"PAID", "UNPAID"}

----------------------------------------------------------------------------
(* C16 *)

\* the customer the ledger screen adds (CustomerLedger.tsx:194-204) at time 0
addedCustomer ==
    [id |-> "CUST-0", name |-> "New Customer", type |-> "WHOLESALE", totalDebt |-> 0]

\* the store as the constructor builds it from localStorage (mockDb.ts:76-96)
\* when the page is loaded again after a customer has been added: addCustomer
\* had saved the customers and the activities
InitReloaded ==
    /\ products = INITIAL_PRODUCTS
    /\ customers = Append(INITIAL_CUSTOMERS, addedCustomer)
    /\ transactions = INITIAL_TRANSACTIONS
    /\ payments = << >>
    /\ expenses = << >>
    /\ activities = << [id |-> "log-0-0", shopId |-> "undefined",
                        customerId |-> addedCustomer.id, date |-> 0,
                        action |-> "ADD_CUSTOMER"] >> \o defaultActivity
    /\ dbInitialized = FALSE
    /\ localStorage = [k \in KEYS |->
                         CASE k = "customers"  -> Append(INITIAL_CUSTOMERS, addedCustomer)
                           [] k = "activities" ->
                                << [id |-> "log-0-0", shopId |-> "undefined",
                                    customerId |-> addedCustomer.id, date |-> 0,
                                    action |-> "ADD_CUSTOMER"] >> \o defaultActivity
                           [] OTHER -> "absent"]
    /\ now = 1
    /\ rnd = 1
    /\ ops = 0
    /\ last = [op |-> "constructor", result |-> "ok", args |-> << >>]
    /\ writtenOff = [c \in {} |-> 0]
    /\ calls = << >>
    /\ remote = [products |-> << >>, customers |-> << >>, rows |-> {}]
    /\ inflight = {}
    /\ view = emptyView
    /\ startup = started

NextLedger ==
    \/ Checkout
    \/ Payment
    \/ Expense

SpecLedger ==
    InitReloaded /\ [][NextLedger]_vars

\* the events of the scenario, as far as they are on record for a customer:
\* sale S1 {total 8000, paid 3000} on shop1, then payment P1 of 2000 on shop1,
\* then expense E1 of 500 on shop2
ScenarioSale(custId) ==
    LET ts == getTransactionsByCustomer(custId) IN
    /\ Len(ts) = 1
    /\ ts[1].totalAmount = 8000
    /\ ts[1].paidAmount = 3000
    /\ ts[1].shopId = "shop1"

ScenarioPayment(custId) ==
    LET ts == getTransactionsByCustomer(custId)
        ps == getPaymentsByCustomer(custId)
    IN
    /\ Len(ps) = 1
    /\ ps[1].amount = 2000
    /\ ps[1].shopId = "shop1"
    /\ ps[1].date > ts[1].date

ScenarioExpense(custId) ==
    LET ps == getPaymentsByCustomer(custId)
        es == getExpensesByCustomer(custId)
    IN
    /\ Len(es) = 1
    /\ es[1].amount = 500
    /\ es[1].shopId = "shop2"
    /\ es[1].date > ps[1].date

----------------------------------------------------------------------------
(* C17 *)

\* C17: computing the statement of a customer twice with no mutating call in
\* between gives the same items in the same order, the same running
\* balances, the same balances per shop and the same totals.
C17_StatementIdempotent ==
    [][(last'.op = "loadCustomerData" /\ last'.again)
            => last'.returned = last.returned]_vars

\* the statement of a customer with a sale or payment on record and an entry
\* in the log has been computed twice in a row
C17_Witness ==
    /\ last.op = "loadCustomerData"
    /\ last.again
    /\ last.returned.statement.statementData # << >>
    /\ last.returned.customerActivities # << >>

----------------------------------------------------------------------------
(* C18 *)

\* C18: computing the statement of a customer leaves the totalDebt of every
\* customer and the stored transactions, payments, expenses, products and
\* activities as they were.
C18_StatementPure ==
    [][last'.op = "loadCustomerData" =>
          /\ customers' = customers
          /\ transactions' = transactions
          /\ payments' = payments
          /\ expenses' = expenses
          /\ products' = products
          /\ activities' = activities
          /\ localStorage' = localStorage
    ]_vars

\* a statement with items has been computed while the log held entries of the
\* customer and of others
C18_Witness ==
    /\ last.op = "loadCustomerData"
    /\ last.result = "ok"
    /\ Len(last.returned.statement.statementData) >= 1
    /\ Len(last.returned.customerActivities) >= 1
    /\ Len(last.returned.customerActivities) < Len(activities)
    /\ \E i \in 1..Len(customers) : customers[i].totalDebt > 0

----------------------------------------------------------------------------
(* C19 *)

\* the expense form takes any number (CustomerLedger.tsx:295-297, 767): an
\* expense of a negative amount, larger than the debt
NegativeExpense ==
    \E c \in CustomerInputs : recordExpense(c, 0 - 20000, now, "shop2")

NextPayments ==
    \/ Checkout
    \/ Payment
    \/ Expense
    \/ NegativeExpense

SpecPayments ==
    Init /\ [][NextPayments]_vars

\* every customer but the one at index i is as it was
OthersUnchanged(i) ==
    /\ Len(customers') = Len(customers)
    /\ \A j \in 1..Len(customers) : j # i => customers'[j] = customers[j]

\* C19: recordPayment for an existing customer sets totalDebt to
\* max(0, totalDebt - amount), appends exactly one payment record with the
\* full amount, the customer id and the given shop id, and leaves the
\* totalDebt of every other customer and the stock of every product as they
\* were; a sale or an expense adds to totalDebt without any floor.
C19_PaymentFloorsDebt ==
    [][/\ (last'.op = "recordPayment" /\ last'.result = "ok") =>
            LET customerId == last'.args[1]
                amount     == last'.args[2]
                shopId     == last'.args[3]
                i          == findIndexById(customers, customerId)
                rest       == customers[i].totalDebt - amount
            IN /\ i > 0
               /\ customers'[i].totalDebt = IF rest > 0 THEN rest ELSE 0
               /\ OthersUnchanged(i)
               /\ Len(payments') = Len(payments) + 1
               /\ SubSeq(payments', 1, Len(payments)) = payments
               /\ payments'[Len(payments')].amount = amount
               /\ payments'[Len(payments')].customerId = customerId
               /\ payments'[Len(payments')].shopId = shopId
               /\ products' = products
       /\ (last'.op = "recordExpense" /\ last'.result = "ok") =>
            LET i == findIndexById(customers, last'.args[1])
            IN /\ customers'[i].totalDebt = customers[i].totalDebt + last'.args[2]
               /\ OthersUnchanged(i)
       /\ last'.op = "createTransaction" =>
            LET t == last'.args[1]
                i == findIndexById(customers, t.customerId)
            IN IF i > 0
               THEN /\ customers'[i].totalDebt = customers[i].totalDebt
                            + (IF t.balance > 0 THEN t.balance ELSE 0)
                    /\ OthersUnchanged(i)
               ELSE customers' = customers
    ]_vars

\* a payment has been floored at 0 for a customer whose debt an expense had
\* taken below 0 without a floor
C19_Witness ==
    /\ last.op = "recordPayment"
    /\ last.result = "ok"
    /\ customers[findIndexById(customers, last.args[1])].totalDebt = 0
    /\ WrittenOff(last.args[1]) > last.args[2]
    /\ \E i \in 1..Len(expenses) : expenses[i].amount < 0

----------------------------------------------------------------------------
(* C20 *)

\* C20: recordPayment and recordExpense called with a customer id that
\* matches no customer fail with a CustomerNotFound error that the caller can
\* tell from success, and leave the totalDebt of every customer, the
\* payments, the expenses and the activity log as they were.
C20_UnknownCustomerRejected ==
    [][(/\ last'.op \in {"recordPayment", "recordExpense"}
        /\ findIndexById(customers, last'.args[1]) = 0)
            => /\ last'.result = "CustomerNotFound"
               /\ customers' = customers
               /\ payments' = payments
               /\ expenses' = expenses
               /\ activities' = activities
    ]_vars

----------------------------------------------------------------------------
(* C21 *)

\* the index of the product with that id in that shop, 0 if there is none
findIndexByIdInShop(prods, productId, shopId) ==
    IF \E i \in 1..Len(prods) : prods[i].id = productId /\ prods[i].shopId = shopId
    THEN CHOOSE i \in 1..Len(prods) : prods[i].id = productId /\ prods[i].shopId = shopId
    ELSE 0

\* C21: createTransaction decrements, for each line item, the stock of the
\* product with that id in the shop of the sale by the quantity of the item,
\* and fails with ProductNotFound when the product id of a line item matches
\* no product in that shop.
C21_SaleDecrementsOrFails ==
    [][last'.op = "createTransaction" =>
        LET t == last'.args[1]
            allFound == \A k \in 1..Len(t.items) :
                            findIndexByIdInShop(products, t.items[k].productId, t.shopId) > 0
        IN IF allFound
           THEN products' = updateStock(products, t.items)
           ELSE last'.result = "ProductNotFound"
    ]_vars

-----------------------------------------------------------------------------
(* The statement of a customer that does not exist *)

\* the screen shows no item, no balance other than zero and zero totals
EmptyStatementShown ==
    /\ view.statementData = << >>
    /\ \A k \in DOMAIN view.shopBalances : view.shopBalances[k] = 0
    /\ view.totalBilled = 0
    /\ view.totalPaid = 0

\* C22: the statement computed for a customer id that no customer has is
\* empty (no item, zero balances per shop, zero totals), whichever statement
\* was computed before it
C22_AbsentCustomerEmptyStatement ==
    [][(/\ last'.op = "loadCustomerData"
        /\ \A i \in 1..Len(customers') : customers'[i].id # last'.args[1])
       => EmptyStatementShown']_vars

-----------------------------------------------------------------------------
(* Bulk import of products (Inventory.tsx:80-121, mockDb.ts:268-273) *)

\* parseFloat and parseInt on the fields the import files hold: << >> is NaN;
\* both read the leading digits of a field and ignore what follows them
parseFloat(field) ==
    CASE field = "120" -> <<120>>
      [] field = "90" -> <<90>>
      [] field = "7" -> <<7>>
      [] field = "12abc" -> <<12>>
      [] OTHER -> << >>

parseInt(field) ==
    parseFloat(field)

\* a field that is a number from its first character to its last
IsNumeric(field) ==
    field \in {"120", "90", "7"}

\* the first line is taken for a header when it holds 'name' and 'price' in
\* whatever case (Inventory.tsx:85-87)
hasHeader(lines) ==
    /\ \E k \in 1..Len(lines[1]) : lines[1][k] \in {"Name", "Product Name"}
    /\ \E k \in 1..Len(lines[1]) : lines[1][k] \in {"Retail Price", "Price"}

\* the product of line k, built by processCSV (Inventory.tsx:102-111)
csvProduct(parts, k, shopId) ==
    [id |-> "CSV-" \o ToString(now) \o "-" \o ToString(k - 1),
     shopId |-> shopId,
     name |-> parts[1],
     category |-> IF parts[2] = "" THEN "Uncategorized" ELSE parts[2],
     price |-> parseFloat(parts[3])[1],
     wholesalePrice |-> IF parseFloat(parts[4]) \in {<< >>, <<0>>}
                        THEN parseFloat(parts[3])[1] ELSE parseFloat(parts[4])[1],
     stock |-> IF parseInt(parts[5]) \in {<< >>, <<0>>} THEN 0 ELSE parseInt(parts[5])[1]]

\* the loop of processCSV (Inventory.tsx:89-112) from line k on; a line is a
\* sequence of the fields parseCSVLine has cut it into, << >> a blank line
RECURSIVE newProducts(_, _, _)
newProducts(lines, k, shopId) ==
    IF k > Len(lines) THEN << >>
    ELSE LET parts == lines[k]
             skipped == \/ parts = << >>
                        \/ Len(parts) < 5
                        \/ parts[1] = ""
                        \/ parseFloat(parts[3]) = << >>
         IN (IF skipped THEN << >> ELSE << csvProduct(parts, k, shopId) >>)
            \o newProducts(lines, k + 1, shopId)

\* processCSV (Inventory.tsx:80-121) on a file read in shop currentShop, with
\* addProducts (mockDb.ts:268-273) when a line gave a product; the count is
\* the one the alert reports
processCSV(lines, currentShop) ==
    LET startIndex == IF hasHeader(lines) THEN 2 ELSE 1
        added == newProducts(lines, startIndex, currentShop)
    IN
    /\ ops < MaxOps
    /\ ops' = ops + 1
    /\ now' = clockAfterCall
    /\ IF Len(added) > 0
       THEN /\ products' = products \o added
            /\ activities' = log(activities, "IMPORT_CSV", added[1].shopId,
                                 "undefined", rnd)
            /\ localStorage' = save(save(localStorage, "products", products'),
                                    "activities", activities')
            /\ inflight' = pushToCloud(inflight, {"products", "activities"},
                                       localStorage')
            /\ rnd' = rnd + 1
       ELSE UNCHANGED <<products, activities, localStorage, inflight, rnd>>
    /\ last' = [op |-> "processCSV",
                result |-> IF Len(added) > 0 THEN "ok" ELSE "No valid products found",
                args |-> <<lines, currentShop>>,
                returned |-> Len(added)]
    /\ UNCHANGED <<customers, transactions, payments, expenses, dbInitialized, startup, view,
                   calls, remote, writtenOff>>

\* the files handed to the import, a line being the sequence of its fields:
\* with and without a header, lines with every field, with the wholesale
\* price and the stock left empty, without a name, with a price that is not
\* a number or only starts as one, with three fields, and a blank line
CsvFiles ==
    { << <<"Name", "Category", "Retail Price", "Wholesale Price", "Stock">>,
         <<"Cap", "Hats", "120", "90", "7">>,
         <<"Scarf", "", "120", "", "">> >>,
      << <<"Cap", "Hats", "120", "90", "7">>,
         <<"", "Hats", "120", "90", "7">> >>,
      << <<"Cap", "Hats", "abc", "90", "7">>,
         << >>,
         <<"Scarf", "", "120", "", "">> >>,
      << <<"", "Hats", "120", "90", "7">>,
         <<"Cap", "Hats", "abc", "90", "7">> >>,
      << <<"Cap", "Hats", "120", "90", "7">>,
         <<"Cap", "Hats", "120">> >>,
      << <<"Name", "Category", "Retail Price", "Wholesale Price", "Stock">>,
         <<"Cap", "Hats", "12abc", "90", "7">> >> }

Import ==
    \E lines \in CsvFiles, shop \in {"shop1", "shop2"} : processCSV(lines, shop)

NextImport ==
    Import

SpecImport ==
    Init /\ [][NextImport]_vars

\* the product the import format gives for line k: the wholesale price is the
\* retail price and the stock 0 where the field is missing or not a number
rowProduct(parts, k, shopId) ==
    LET field(j) == IF j <= Len(parts) THEN parts[j] ELSE "" IN
    [id |-> "CSV-" \o ToString(now) \o "-" \o ToString(k - 1),
     shopId |-> shopId,
     name |-> parts[1],
     category |-> IF field(2) = "" THEN "Uncategorized" ELSE field(2),
     price |-> parseFloat(parts[3])[1],
     wholesalePrice |-> IF IsNumeric(field(4)) THEN parseFloat(field(4))[1]
                        ELSE parseFloat(parts[3])[1],
     stock |-> IF IsNumeric(field(5)) THEN parseInt(field(5))[1] ELSE 0]

\* one product for every line from k on whose name is present and whose
\* retail price is a number
RECURSIVE validRows(_, _, _)
validRows(lines, k, shopId) ==
    IF k > Len(lines) THEN << >>
    ELSE LET parts == lines[k]
             valid == /\ Len(parts) >= 3
                      /\ parts[1] # ""
                      /\ IsNumeric(parts[3])
         IN (IF valid THEN << rowProduct(parts, k, shopId) >> ELSE << >>)
            \o validRows(lines, k + 1, shopId)

\* C23: the import adds to the current shop one product for every row whose
\* name is present and whose retail price is numeric (the wholesale price
\* falling back to the retail price, the stock to 0), skips every other row,
\* and reports as many products as it added
C23_ImportAddsValidRows ==
    [][last'.op = "processCSV" =>
        LET lines == last'.args[1]
            shop == last'.args[2]
            rows == validRows(lines, IF hasHeader(lines) THEN 2 ELSE 1, shop)
        IN /\ products' = products \o rows
           /\ last'.returned = Len(rows)
      ]_vars

-----------------------------------------------------------------------------
(* The statement after an expense is entered on the ledger screen
   (CustomerLedger.tsx:295-304) *)

\* a sort that looks for the place of an item from the end of the items
\* already placed: with a comparator that is not an order (an item without a
\* date compares 0 with every item) the order the sort leaves is up to the
\* engine, and this is the one an engine leaves that finds the list already
\* in runs
RECURSIVE insertFromEnd(_, _)
insertFromEnd(sorted, item) ==
    IF sorted = << >> THEN <<item>>
    ELSE IF compareDates(sorted[Len(sorted)], item) <= 0
         THEN Append(sorted, item)
         ELSE Append(insertFromEnd(SubSeq(sorted, 1, Len(sorted) - 1), item),
                     sorted[Len(sorted)])

RECURSIVE sortFromEnd(_)
sortFromEnd(items) ==
    IF items = << >> THEN << >>
    ELSE insertFromEnd(sortFromEnd(SubSeq(items, 1, Len(items) - 1)),
                       items[Len(items)])

\* the orders items.sort can leave the merged items in (CustomerLedger.tsx:165)
sortOutcomes(items) ==
    {sortByDate(items), sortFromEnd(items)}

\* what loadCustomerData puts on the screen (CustomerLedger.tsx:93-183) when
\* the sort leaves the items in the order sorted
viewOf(custId, sorted) ==
    [statementData |-> withBalance(sorted, 0),
     shopBalances |-> shopBalances(custId),
     totalBilled |-> SumSeq([i \in 1..Len(sorted) |->
                        IF sorted[i].type \in {"SALE", "EXPENSE"}
                        THEN sorted[i].amount ELSE 0]),
     totalPaid |-> SumSeq([i \in 1..Len(sorted) |->
                        IF sorted[i].type = "PAYMENT" THEN sorted[i].amount ELSE 0]),
     customerActivities |-> sortNewestFirst(
                        SelectSeq(activities, LAMBDA a : a.customerId = custId))]

\* handleExpenseSubmit (CustomerLedger.tsx:295-304) for the customer selected
\* on the screen: recordExpense (mockDb.ts:372-391), then loadCustomerData
handleExpenseSubmit(selectedCustId, amount, date, shopId) ==
    LET custIndex == findIndexById(customers, selectedCustId)
        expense == [id |-> "exp-" \o ToString(now), shopId |-> shopOrUnknown(shopId),
                    customerId |-> selectedCustId, amount |-> amount, date |-> date]
    IN
    /\ ops < MaxOps
    /\ custIndex > 0
    /\ customers[custIndex].type = "WHOLESALE"
    /\ ops' = ops + 1
    /\ customers' = [customers EXCEPT ![custIndex].totalDebt = @ + amount]
    /\ expenses' = Append(expenses, expense)
    /\ activities' = activitiesAfterGetByCustomer(
                         log(activities, "EXPENSE", shopId, selectedCustId, rnd),
                         selectedCustId)
    /\ localStorage' = save(save(save(localStorage, "customers", customers'),
                                 "expenses", expenses'),
                            "activities",
                            log(activities, "EXPENSE", shopId, selectedCustId, rnd))
    /\ inflight' = pushToCloud(inflight, {"customers", "expenses", "activities"},
                               localStorage')
    /\ rnd' = rnd + 1
    /\ now' = clockAfterCall
    /\ UNCHANGED <<products, transactions, payments, dbInitialized, startup, calls, remote,
                   writtenOff>>
    /\ \E sorted \in sortOutcomes(statementItems(selectedCustId))' :
           view' = viewOf(selectedCustId, sorted)'
    /\ last' = [op |-> "handleExpenseSubmit", result |-> "ok",
                args |-> <<selectedCustId, amount, date, shopId>>]

\* the dates the expense form is sent with: none, the start of the day, the
\* time of the call
ExpenseDates ==
    {NoDate, 0, now}

SubmitExpense ==
    \E c \in CustomerInputs, a \in ExpenseAmounts, d \in ExpenseDates :
        handleExpenseSubmit(c, a, d, "shop2")

NextStatement ==
    \/ Checkout
    \/ SubmitExpense

SpecStatement ==
    InitReloaded /\ [][NextStatement]_vars

\* the events of customer c in the store
EventIds(c) ==
    {getTransactionsByCustomer(c)[i].id : i \in 1..Len(getTransactionsByCustomer(c))}
    \cup {getPaymentsByCustomer(c)[i].id : i \in 1..Len(getPaymentsByCustomer(c))}
    \cup {getExpensesByCustomer(c)[i].id : i \in 1..Len(getExpensesByCustomer(c))}

EventCount(c) ==
    Len(getTransactionsByCustomer(c)) + Len(getPaymentsByCustomer(c))
    + Len(getExpensesByCustomer(c))

\* the statement on the screen lists the events of c once each, the dated
\* ones in ascending order of date, each with the sum of the contributions
\* down to it
StatementInOrder(c) ==
    LET items == view.statementData IN
    /\ Len(items) = EventCount(c)
    /\ {items[i].id : i \in 1..Len(items)} = EventIds(c)
    /\ \A i, j \in 1..Len(items) :
          (i < j /\ items[i].date # NoDate /\ items[j].date # NoDate)
             => items[i].date <= items[j].date
    /\ \A i \in 1..Len(items) :
          items[i].runningBalance =
             SumSeq([k \in 1..i |-> items[k].balanceChange])

\* C24: the statement lists every sale, payment and expense of the customer
\* once, in ascending order of date, and the running balance of an item is
\* the sum of the contributions (+ balance of a sale, - amount of a payment,
\* + amount of an expense) of the item and of the items before it
C24_StatementOrdered ==
    [][\A c \in {customers[i].id : i \in 1..Len(customers)} :
          (last'.op = "handleExpenseSubmit" /\ last'.args[1] = c)
             => StatementInOrder(c)']_vars

-----------------------------------------------------------------------------
(* The totals of the statement *)

\* the statement of customer c has just been put on the screen
Loaded(c) ==
    /\ last.op = "loadCustomerData"
    /\ last.result = "ok"
    /\ last.args = <<c>>

\* C25: the summary of a statement has totalBilled = the sum of totalAmount
\* over the customer's sales plus the sum of the amounts of its expenses, and
\* totalPaid = the sum of the amounts of its payments
C25_SummaryTotals ==
    \A c \in {customers[i].id : i \in 1..Len(customers)} :
        Loaded(c) =>
            LET ts == getTransactionsByCustomer(c)
                ps == getPaymentsByCustomer(c)
                es == getExpensesByCustomer(c)
            IN /\ view.totalBilled =
                     SumSeq([i \in 1..Len(ts) |-> ts[i].totalAmount])
                     + SumSeq([i \in 1..Len(es) |-> es[i].amount])
               /\ view.totalPaid = SumSeq([i \in 1..Len(ps) |-> ps[i].amount])

\* a statement is on the screen for a customer with a sale paid in part and
\* a payment or an expense
C25_Witness ==
    \E c \in {customers[i].id : i \in 1..Len(customers)} :
        /\ Loaded(c)
        /\ \E i \in 1..Len(getTransactionsByCustomer(c)) :
              LET t == getTransactionsByCustomer(c)[i]
              IN t.balance > 0 /\ t.balance < t.totalAmount
        /\ Len(getPaymentsByCustomer(c)) + Len(getExpensesByCustomer(c)) > 0
        /\ view.totalBilled > 0

-----------------------------------------------------------------------------
(* Mutations made while the store synchronises *)

\* C26: a mutation made while the background synchronisation is in flight is
\* not lost when the synchronisation completes: a payment that is recorded
\* stays recorded, and the debt of its customer is not set back, by any step
\* that is not itself a call of the user
C26_MutationSurvivesSync ==
    [][ops' = ops =>
          /\ \A i \in 1..Len(payments) :
                \E j \in 1..Len(payments') : payments'[j] = payments[i]
          /\ customers' = customers]_vars

-----------------------------------------------------------------------------
(* The start of the application (App.tsx:17-33, 53-61) with init() of the
   async store (part_001:125-258). init() waits for the SQL store twice in
   this model: for the CREATE TABLE statements taken together, then for the
   SELECT statements taken together; an answer may come, fail, or never come *)

\* the page has been loaded again: the collections are in localStorage and in
\* the SQL store, the store object is new and the application is not mounted
InitStartup ==
    /\ products = << >>
    /\ customers = << >>
    /\ transactions = << >>
    /\ payments = << >>
    /\ expenses = << >>
    /\ activities = << >>
    /\ dbInitialized = TRUE
    /\ localStorage = saveToLocalStorage(INITIAL_PRODUCTS, INITIAL_CUSTOMERS,
                                         << >>, << >>, << >>, << >>)
    /\ now = 0
    /\ rnd = 0
    /\ ops = 0
    /\ last = [op |-> "constructor", result |-> "ok", args |-> << >>]
    /\ writtenOff = [c \in {} |-> 0]
    /\ calls = [c \in 1..MaxCalls |-> idleCall]
    /\ remote = [products  |-> [id \in {INITIAL_PRODUCTS[i].id : i \in 1..Len(INITIAL_PRODUCTS)} |->
                                  INITIAL_PRODUCTS[findIndexById(INITIAL_PRODUCTS, id)].stock],
                 customers |-> [id \in {INITIAL_CUSTOMERS[i].id : i \in 1..Len(INITIAL_CUSTOMERS)} |->
                                  INITIAL_CUSTOMERS[findIndexById(INITIAL_CUSTOMERS, id)].totalDebt],
                 rows |-> {}]
    /\ inflight = {}
    /\ view = emptyView
    /\ startup = [init |-> "notCalled", timer |-> "notSet", isInitialized |-> FALSE,
                  isDbReady |-> FALSE]

\* a start that waits for init() alone
raceSettled_initOnly(init, timer) ==
    init = "resolved"

\* Promise.race([db.init(), timeoutPromise]) has settled (App.tsx:24)
raceSettled(init, timer) ==
    init = "resolved" \/ timer = "fired"

\* the effect of App runs initDb (App.tsx:17-32): the timeout is set and
\* db.init() runs to its return or to its first await (part_001:125-152);
\* hasSql tells whether initSqlClient found a database URL
mountApp(hasSql) ==
    /\ startup.init = "notCalled"
    /\ products' = localStorage["products"]
    /\ customers' = localStorage["customers"]
    /\ transactions' = localStorage["transactions"]
    /\ payments' = localStorage["payments"]
    /\ expenses' = localStorage["expenses"]
    /\ activities' = localStorage["activities"]
    /\ startup' = IF hasSql
                  THEN [startup EXCEPT !.init = "awaitSchema", !.timer = "set"]
                  ELSE [startup EXCEPT !.init = "resolved", !.timer = "set",
                                       !.isInitialized = TRUE]
    /\ UNCHANGED <<dbInitialized, localStorage, now, rnd, ops, last, writtenOff, calls,
                   remote, inflight, view>>

\* the CREATE TABLE statements are answered and init() sends its SELECTs
\* (part_001:152-161)
schemaAnswered ==
    /\ startup.init = "awaitSchema"
    /\ startup' = [startup EXCEPT !.init = "awaitFetch"]
    /\ UNCHANGED <<storeVars, dbInitialized, localStorage, now, rnd, ops, last, writtenOff,
                   calls, remote, inflight, view>>

\* a collection as the SELECT on its table returns it: the rows that are in
\* the SQL store
fetched(rows) ==
    SelectSeq(rows, LAMBDA r : r.id \in remote.rows)

\* the SELECTs are answered: the collections are replaced by the rows of the
\* SQL store, saved to localStorage, and the finally block sets the flag
\* (part_001:161-258)
fetchAnswered ==
    /\ startup.init = "awaitFetch"
    /\ products' = LET rows == SelectSeq(products,
                                LAMBDA r : r.id \in DOMAIN remote.products)
                   IN [i \in 1..Len(rows) |->
                         [rows[i] EXCEPT !.stock = remote.products[rows[i].id]]]
    /\ customers' = LET rows == SelectSeq(customers,
                                LAMBDA r : r.id \in DOMAIN remote.customers)
                    IN [i \in 1..Len(rows) |->
                          [rows[i] EXCEPT !.totalDebt = remote.customers[rows[i].id]]]
    /\ transactions' = fetched(transactions)
    /\ payments' = fetched(payments)
    /\ expenses' = fetched(expenses)
    /\ activities' = fetched(activities)
    /\ localStorage' = saveToLocalStorage(products', customers', transactions',
                                          payments', expenses', activities')
    /\ startup' = [startup EXCEPT !.init = "resolved", !.isInitialized = TRUE]
    /\ last' = [op |-> "init", result |-> "ok", args |-> << >>]
    /\ UNCHANGED <<dbInitialized, now, rnd, ops, writtenOff, calls, remote,
                   inflight, view>>

\* a statement of init() fails: the catch block reports the error and keeps
\* the local data, the finally block sets the flag (part_001:245-258)
initCaught ==
    /\ startup.init \in {"awaitSchema", "awaitFetch"}
    /\ startup' = [startup EXCEPT !.init = "resolved", !.isInitialized = TRUE]
    /\ last' = [op |-> "init", result |-> "CRITICAL DB ERROR", args |-> << >>]
    /\ UNCHANGED <<storeVars, dbInitialized, localStorage, now, rnd, ops, writtenOff,
                   calls, remote, inflight, view>>

\* the two seconds of the timeout are over (App.tsx:21)
timeoutFires ==
    /\ startup.timer = "set"
    /\ startup' = [startup EXCEPT !.timer = "fired"]
    /\ UNCHANGED <<storeVars, dbInitialized, localStorage, now, rnd, ops, last, writtenOff,
                   calls, remote, inflight, view>>

\* the race has settled and the finally block of initDb runs (App.tsx:24-30)
initDbFinally ==
    /\ ~startup.isDbReady
    /\ raceSettled(startup.init, startup.timer)
    /\ startup' = [startup EXCEPT !.isDbReady = TRUE]
    /\ UNCHANGED <<storeVars, dbInitialized, localStorage, now, rnd, ops, last, writtenOff,
                   calls, remote, inflight, view>>

MountApp ==
    \E hasSql \in BOOLEAN : mountApp(hasSql)

\* the screens are shown once isDbReady is set (App.tsx:53-61): the user
\* records payments, which the SQL store answers
ReadyPayment ==
    /\ startup.isDbReady
    /\ AsyncPayment

NextStartup ==
    \/ MountApp
    \/ schemaAnswered
    \/ fetchAnswered
    \/ initCaught
    \/ timeoutFires
    \/ initDbFinally
    \/ ReadyPayment
    \/ DebtUpdateAnswered
    \/ InsertAnswered
    \/ logInsertArrives

\* the effect runs once the application is mounted, a timeout that is set
\* fires, and the code after a settled promise runs; nothing makes the SQL
\* store answer
SpecStartup ==
    /\ InitStartup
    /\ [][NextStartup]_vars
    /\ WF_vars(MountApp)
    /\ WF_vars(timeoutFires)
    /\ WF_vars(initDbFinally)

\* C27: the start always unblocks: isDbReady becomes true and stays true,
\* whether init() ends or never does, and init() has set isInitialized
\* whenever it has ended
C27_StartupUnblocks ==
    /\ <>[](startup.isDbReady)
    /\ [](startup.init = "resolved" => startup.isInitialized)

\* the screens are shown while init() still waits for the SQL store
C27_Witness ==
    /\ startup.isDbReady
    /\ startup.timer = "fired"
    /\ startup.init \in {"awaitSchema", "awaitFetch"}

-----------------------------------------------------------------------------
(* Reads of the activity log leave the log alone *)

-----------------------------------------------------------------------------
(* The debt of a customer is never negative *)

\* C29: the customers start with a debt of 0 or more and the expenses have an
\* amount of 0 or more; then no sequence of sales, payments and expenses
\* leaves a customer with a negative debt, whatever the balances of the sales
\* and the amounts of the payments
C29_DebtNeverNegative ==
    \A i \in 1..Len(customers) : customers[i].totalDebt >= 0

\* a customer was sold to for less than was paid, or paid more than was owed,
\* and owes nothing
C29_Witness ==
    \E i \in 1..Len(customers) :
        /\ customers[i].totalDebt = 0
        /\ \/ \E k \in 1..Len(transactions) :
                 /\ transactions[k].customerId = customers[i].id
                 /\ transactions[k].balance < 0
           \/ WrittenOff(customers[i].id) > 0

-----------------------------------------------------------------------------
(* Transfers that overlap (part_001:437-472) *)

\* quantities small enough for two transfers out of the 20 belts of shop2
OverlapQuantities ==
    {5, 10}

OverlapTransfer ==
    \E c \in 1..MaxCalls, to \in {"shop1", "shop3"}, q \in OverlapQuantities :
        transferProductAsync(c, "Leather Belt", "shop2", to, q)

NextTransfers ==
    \/ OverlapTransfer
    \/ TransferAfterDeduct
    \/ TransferAfterDest
    \/ logInsertArrives

SpecTransfers ==
    InitAsync /\ [][NextTransfers]_vars

\* C30: transfers keep the pair (shopId, name) unique among the products,
\* also when two transfers of one name to one destination overlap at their
\* awaits
C30_ShopNameUnique ==
    \A i, j \in 1..Len(products) :
        (products[i].shopId = products[j].shopId /\ products[i].name = products[j].name)
            => i = j

\* two transfers of one name to one shop that had no such product are both
\* waiting for the answer to their write of the destination
C30_Witness ==
    \E c, d \in 1..MaxCalls :
        /\ c # d
        /\ calls[c].op = "transferProduct" /\ calls[d].op = "transferProduct"
        /\ calls[c].pc = "awaitDest" /\ calls[d].pc = "awaitDest"
        /\ calls[c].args[1] = calls[d].args[1]
        /\ calls[c].args[3] = calls[d].args[3]
        /\ findIndexByShopAndName(INITIAL_PRODUCTS, calls[c].args[3], calls[c].args[1]) = 0
        /\ \E i \in 1..Len(products) :
              /\ products[i].shopId = calls[c].args[3]
              /\ products[i].name = calls[c].args[1]
              /\ products[i].stock = calls[c].args[4] + calls[d].args[4]

====
